---- MODULE Spec2Model ----
(***************************************************************************)
(* CounterCart background jobs (src/backend/app): the donation pipeline    *)
(* as a state machine over the relational store.                           *)
(*                                                                         *)
(* Store model.  Every job runs on an AsyncSession (database.py:32-47):    *)
(* one PostgreSQL transaction at the default READ COMMITTED level.         *)
(*   db      the committed rows, one function id -> row per table          *)
(*   tx[s]   the rows session s has flushed but not committed: an inserted *)
(*           row (all columns), the changed columns of an updated row, or  *)
(*           the Deleted marker.  A row in tx[s] is locked by s: another   *)
(*           session's UPDATE/DELETE of it waits until s commits or rolls  *)
(*           back (the action is disabled meanwhile).                      *)
(* A SELECT of session s sees db overlaid with tx[s].  The ORM emits       *)
(* UPDATE ... SET <changed columns> WHERE id = <pk>, so a waiting UPDATE   *)
(* proceeds on the newly committed row and overwrites only its own columns.*)
(* Money is held in integer cents (Numeric(10, 2) columns).                *)
(***************************************************************************)
EXTENDS Integers, Sequences, FiniteSets, TLC

VARIABLES db, tx, pc, loc, ret, week, stripe, change, plaid, handled, partner, cache, now

vars == <<db, tx, pc, loc, ret, week, stripe, change, plaid, handled, partner, cache, now>>

\* ------------------------------------------------------------------ bounds
MaxDonations == 2
MaxBatches == 4
MaxWeek == 2
MaxIntents == 2
MaxDisbursements == 3
MaxAmount == 520
MaxTxns == 5
MaxMultiplier == 250
MaxRetries == 2
MaxGroup == 3
MaxRequests == 3
MaxAttempts == 1026

\* ------------------------------------------------------------- identities
Sessions == {"s1", "s2"}
\* the session of the provider-notification handlers
Notified == {"s1"}
UserOrder == <<"u1", "u2">>
Users == {UserOrder[i] : i \in 1..Len(UserOrder)}
DonationIds == 1..MaxDonations
BatchIds == 1..MaxBatches
None == "None"
\* NULL in an id-valued column (ids count from 1)
NoId == 0
Deleted == [deleted |-> TRUE]
\* NULL in a Numeric column: <<>>, and <<c>> for the amount of c cents
NoLimit == <<>>
NoLoc == [job |-> "none"]
\* what a job's last call returned or raised
NoRet == [kind |-> "none"]
\* the Every.org Partner API: whether its credentials are set, and the
\* disbursement requests it has received
NoPartner == [configured |-> FALSE, requests |-> <<>>]
\* _mappings_cache and _cache_expires_at (matching_service.py:27-28) at import;
\* _mappings_cache is <<>> for None and <<mappings>> for {"mappings": mappings}
NoCache == [mappings_cache |-> <<>>, cache_expires_at |-> 0]
Running == [kind |-> "running"]
Returned(r) == [kind |-> "returned", value |-> r]
Skipped(reason) == [kind |-> "skipped", reason |-> reason]
Raised(e) == [kind |-> "raised", error |-> e]
\* donation amounts (cents) the aggregator meets; the $1.00 floor is 100
Amounts == {60, 100}

\* --------------------------------------------------------- store operators
EmptyTx == [batch |-> <<>>, donation |-> <<>>, txn |-> <<>>, user |-> <<>>,
            event |-> <<>>, item |-> <<>>, account |-> <<>>, charity |-> <<>>]

Tables == DOMAIN EmptyTx

Merge(a, b) == [f \in DOMAIN a \cup DOMAIN b |-> IF f \in DOMAIN b THEN b[f] ELSE a[f]]

\* a table after the writes w (id -> inserted row | changed columns | Deleted)
ApplyWrites(table, w) ==
    LET gone == {i \in DOMAIN w : w[i] = Deleted}
        ids == (DOMAIN table \cup DOMAIN w) \ gone
    IN [i \in ids |-> IF i \in DOMAIN w
                        THEN IF i \in DOMAIN table THEN Merge(table[i], w[i]) ELSE w[i]
                        ELSE table[i]]

\* what a statement of session s reads: committed rows plus its own writes
Visible(s) == [t \in Tables |-> ApplyWrites(db[t], tx[s][t])]

\* COMMIT of session s
Committed(s) == [t \in Tables |-> ApplyWrites(db[t], tx[s][t])]

\* session s records a write of row i of table t
PutRow(w, i, cols) ==
    IF cols = Deleted THEN [j \in DOMAIN w \cup {i} |-> IF j = i THEN Deleted ELSE w[j]]
    ELSE [j \in DOMAIN w \cup {i} |->
            IF j = i THEN (IF i \in DOMAIN w /\ w[i] # Deleted THEN Merge(w[i], cols) ELSE cols)
            ELSE w[j]]

\* row i of table t is locked by a session other than s
LockedByOther(s, t, i) == \E o \in Sessions \ {s} : i \in DOMAIN tx[o][t]

Idle(s) == pc[s] = "idle"
AllIdle == \A s \in Sessions : Idle(s)

RECURSIVE SumOver(_, _)
SumOver(S, f) == IF S = {} THEN 0
                 ELSE LET x == CHOOSE y \in S : TRUE IN f[x] + SumOver(S \ {x}, f)

\* ------------------------------------------------- schema-level constraints
\* UniqueConstraint("userId", "weekOf", name="DonationBatch_userId_weekOf_key")
BatchUniqueDropped == FALSE

BatchUnique == TRUE

\* a committed row already holds the key: the INSERT raises IntegrityError
BatchKeyTaken(userId, weekOf) ==
    /\ BatchUnique
    /\ \E b \in DOMAIN db.batch : db.batch[b].userId = userId /\ db.batch[b].weekOf = weekOf

\* another session's uncommitted INSERT holds the key: the INSERT waits for it
BatchKeyPending(s, userId, weekOf) ==
    /\ BatchUnique
    /\ \E o \in Sessions \ {s} : \E b \in DOMAIN tx[o].batch :
        /\ b \notin DOMAIN db.batch
        /\ tx[o].batch[b] # Deleted
        /\ tx[o].batch[b].userId = userId /\ tx[o].batch[b].weekOf = weekOf

\* generate_cuid(): an id no row uses
BatchIdFree(b) == b \notin DOMAIN db.batch /\ \A o \in Sessions : b \notin DOMAIN tx[o].batch

HasFreshBatchId == \E b \in BatchIds : BatchIdFree(b)

FreshBatchId == CHOOSE b \in BatchIds : BatchIdFree(b) /\ \A c \in BatchIds : BatchIdFree(c) => b <= c

\* ---------------------------------------------------------------- rows
UserRow(auto) == [autoDonateEnabled |-> auto, monthlyLimit |-> NoLimit, currentMonthTotal |-> 0,
                  donationMultiplier |-> 100, stripeCustomerId |-> "cus"]

\* the Donation row process_transaction inserts (matching_service.py:185-196)
NewDonationRow(userId, txnId, charityId, amount) ==
    [userId |-> userId, transactionId |-> txnId, charityId |-> charityId, amount |-> amount,
     status |-> "PENDING",
     batchId |-> NoId, changeId |-> NoId, errorMessage |-> None,
     everyOrgId |-> None, completedAt |-> None]

\* the Transaction row of a matched transaction
MatchedTxnRow(userId, extId, amount) ==
    [userId |-> userId, plaidTransactionId |-> extId, amount |-> amount, status |-> "MATCHED"]

\* the DonationBatch row create_weekly_batches inserts (process_donations.py:114-122)
NewBatchRow(userId, weekOf, total) ==
    [userId |-> userId, weekOf |-> weekOf, totalAmount |-> total, status |-> "PENDING",
     stripePaymentIntentId |-> NoId, stripePaymentStatus |-> None, processedAt |-> None]

\* ------------------------------------------------------------ Batch Aggregator
\* get_week_start(now): the model's clock counts weeks
get_week_start == week

\* the clock passes a Sunday 00:00 UTC
AdvanceWeek ==
    /\ week < MaxWeek
    /\ week' = week + 1
    /\ UNCHANGED <<db, tx, pc, loc, ret, stripe, change, plaid, handled, partner, cache, now>>

\* A successful match as the aggregator sees it: process_transaction has set the
\* transaction MATCHED and inserted its PENDING, unbatched Donation, and the
\* ingestion unit of work has committed.
MatchCommitted(u, amt) ==
    /\ \E d \in DonationIds \ DOMAIN db.donation :
        /\ \A e \in DonationIds \ DOMAIN db.donation : d <= e
        /\ \A s \in Sessions : d \notin DOMAIN tx[s].donation
        /\ db' = [db EXCEPT !.donation = ApplyWrites(@, d :> NewDonationRow(u, d, "c1", amt)),
                            !.txn = ApplyWrites(@, d :> MatchedTxnRow(u, d, amt))]
    /\ UNCHANGED <<tx, pc, loc, ret, week, stripe, change, plaid, handled, partner, cache, now>>

GroupOf(pending, u) == {d \in DOMAIN pending : pending[d].userId = u}

\* the total of a group as line 109 or 118 stores it in Numeric(10, 2), in cents
GroupTotal(pending, u) == SumOver(GroupOf(pending, u), [d \in DOMAIN pending |-> pending[d].amount])

\* the amounts of a group in the order of the list `donations` (the SELECT of
\* line 74 has no ORDER BY; rows are taken in id order)
RECURSIVE InListOrder(_, _)
InListOrder(pending, grp) ==
    IF grp = {} THEN <<>>
    ELSE LET d == CHOOSE x \in grp : \A y \in grp : x <= y
         IN <<pending[d].amount>> \o InListOrder(pending, grp \ {d})

\* line 95 adds the amounts up as binary floats: the lists of at most three
\* two-decimal amounts (in cents) that add up to 1.00 exactly and whose
\* sum(float(a) ...) is 0.9999999999999999
FloatSumsBelowOne ==
    {<<6, 57, 37>>, <<6, 58, 36>>, <<6, 59, 35>>, <<6, 82, 12>>, <<6, 83, 11>>, <<6, 84, 10>>,
     <<6, 85, 9>>, <<6, 86, 8>>, <<7, 57, 36>>, <<7, 58, 35>>, <<7, 82, 11>>, <<7, 83, 10>>,
     <<7, 84, 9>>, <<7, 85, 8>>, <<8, 57, 35>>, <<8, 69, 23>>, <<8, 70, 22>>, <<8, 71, 21>>,
     <<8, 82, 10>>, <<8, 83, 9>>, <<8, 84, 8>>, <<9, 69, 22>>, <<9, 70, 21>>, <<9, 82, 9>>,
     <<9, 83, 8>>, <<10, 69, 21>>, <<10, 82, 8>>, <<18, 47, 35>>, <<18, 69, 13>>, <<18, 70, 12>>,
     <<18, 71, 11>>, <<18, 72, 10>>, <<18, 73, 9>>, <<18, 74, 8>>, <<19, 69, 12>>,
     <<19, 70, 11>>, <<19, 71, 10>>, <<19, 72, 9>>, <<19, 73, 8>>, <<20, 69, 11>>,
     <<20, 70, 10>>, <<20, 71, 9>>, <<20, 72, 8>>, <<21, 57, 22>>, <<21, 58, 21>>,
     <<21, 69, 10>>, <<21, 70, 9>>, <<21, 71, 8>>, <<22, 57, 21>>, <<22, 69, 9>>, <<22, 70, 8>>,
     <<23, 69, 8>>, <<24, 41, 35>>, <<29, 35, 36>>, <<29, 36, 35>>, <<29, 57, 14>>,
     <<29, 58, 13>>, <<29, 59, 12>>, <<29, 60, 11>>, <<29, 61, 10>>, <<29, 62, 9>>,
     <<29, 63, 8>>, <<30, 35, 35>>, <<30, 57, 13>>, <<30, 58, 12>>, <<30, 59, 11>>,
     <<30, 60, 10>>, <<30, 61, 9>>, <<30, 62, 8>>, <<31, 57, 12>>, <<31, 58, 11>>,
     <<31, 59, 10>>, <<31, 60, 9>>, <<31, 61, 8>>, <<32, 57, 11>>, <<32, 58, 10>>, <<32, 59, 9>>,
     <<32, 60, 8>>, <<33, 57, 10>>, <<33, 58, 9>>, <<33, 59, 8>>, <<34, 57, 9>>, <<34, 58, 8>>,
     <<35, 29, 36>>, <<35, 30, 35>>, <<35, 57, 8>>, <<36, 29, 35>>, <<41, 24, 35>>,
     <<41, 47, 12>>, <<41, 48, 11>>, <<41, 49, 10>>, <<41, 50, 9>>, <<41, 51, 8>>,
     <<42, 47, 11>>, <<42, 48, 10>>, <<42, 49, 9>>, <<42, 50, 8>>, <<43, 47, 10>>, <<43, 48, 9>>,
     <<43, 49, 8>>, <<44, 47, 9>>, <<44, 48, 8>>, <<45, 47, 8>>, <<47, 18, 35>>, <<47, 41, 12>>,
     <<47, 42, 11>>, <<47, 43, 10>>, <<47, 44, 9>>, <<47, 45, 8>>, <<48, 41, 11>>,
     <<48, 42, 10>>, <<48, 43, 9>>, <<48, 44, 8>>, <<49, 41, 10>>, <<49, 42, 9>>, <<49, 43, 8>>,
     <<50, 41, 9>>, <<50, 42, 8>>, <<51, 41, 8>>, <<57, 6, 37>>, <<57, 7, 36>>, <<57, 8, 35>>,
     <<57, 21, 22>>, <<57, 22, 21>>, <<57, 29, 14>>, <<57, 30, 13>>, <<57, 31, 12>>,
     <<57, 32, 11>>, <<57, 33, 10>>, <<57, 34, 9>>, <<57, 35, 8>>, <<58, 6, 36>>, <<58, 7, 35>>,
     <<58, 21, 21>>, <<58, 29, 13>>, <<58, 30, 12>>, <<58, 31, 11>>, <<58, 32, 10>>,
     <<58, 33, 9>>, <<58, 34, 8>>, <<59, 6, 35>>, <<59, 29, 12>>, <<59, 30, 11>>, <<59, 31, 10>>,
     <<59, 32, 9>>, <<59, 33, 8>>, <<60, 29, 11>>, <<60, 30, 10>>, <<60, 31, 9>>, <<60, 32, 8>>,
     <<61, 29, 10>>, <<61, 30, 9>>, <<61, 31, 8>>, <<62, 29, 9>>, <<62, 30, 8>>, <<63, 29, 8>>,
     <<69, 8, 23>>, <<69, 9, 22>>, <<69, 10, 21>>, <<69, 18, 13>>, <<69, 19, 12>>,
     <<69, 20, 11>>, <<69, 21, 10>>, <<69, 22, 9>>, <<69, 23, 8>>, <<70, 8, 22>>, <<70, 9, 21>>,
     <<70, 18, 12>>, <<70, 19, 11>>, <<70, 20, 10>>, <<70, 21, 9>>, <<70, 22, 8>>, <<71, 8, 21>>,
     <<71, 18, 11>>, <<71, 19, 10>>, <<71, 20, 9>>, <<71, 21, 8>>, <<72, 18, 10>>, <<72, 19, 9>>,
     <<72, 20, 8>>, <<73, 18, 9>>, <<73, 19, 8>>, <<74, 18, 8>>, <<82, 6, 12>>, <<82, 7, 11>>,
     <<82, 8, 10>>, <<82, 9, 9>>, <<82, 10, 8>>, <<83, 6, 11>>, <<83, 7, 10>>, <<83, 8, 9>>,
     <<83, 9, 8>>, <<84, 6, 10>>, <<84, 7, 9>>, <<84, 8, 8>>, <<85, 6, 9>>, <<85, 7, 8>>,
     <<86, 6, 8>>}

\* line 96: total_amount < 1.0, on the float sum
BelowFloor(pending, u) ==
    \/ GroupTotal(pending, u) < 100
    \/ InListOrder(pending, GroupOf(pending, u)) \in FloatSumsBelowOne

\* a group the loop does not `continue` past (process_donations.py:92-98)
Batchable(s, pending, u) ==
    /\ GroupOf(pending, u) # {}
    /\ Visible(s).user[u].autoDonateEnabled
    /\ ~BelowFloor(pending, u)

\* the next user of the loop that reaches the batch SELECT, 0 when none is left
NextBatchable(s) ==
    LET l == loc[s]
        idx == {i \in l.pos..Len(UserOrder) : Batchable(s, l.pending, UserOrder[i])}
    IN IF idx = {} THEN 0 ELSE CHOOSE i \in idx : \A j \in idx : i <= j

\* lines 77-78: the WHERE clause of the SELECT of pending donations
UnbatchedAnyStatus(row) == row.batchId = NoId

Unbatched(row) == row.status = "PENDING" /\ row.batchId = NoId

\* lines 71-87: SELECT the PENDING donations without a batch, group by user
CwbSelectPending(s) ==
    /\ pc[s] = "idle"
    /\ LET v == Visible(s).donation
           pend == {d \in DOMAIN v : Unbatched(v[d])}
       IN loc' = [loc EXCEPT ![s] = [job |-> "create_weekly_batches", week_of |-> get_week_start,
                                     pending |-> [d \in pend |-> v[d]], pos |-> 1,
                                     batch |-> None, results |-> {}]]
    /\ pc' = [pc EXCEPT ![s] = "cwb_loop"]
    /\ ret' = [ret EXCEPT ![s] = Running]
    /\ UNCHANGED <<db, tx, week, stripe, change, plaid, handled, partner, cache, now>>

\* lines 100-123: SELECT the batch of (user, week); accumulate into it, or build a new one
CwbSelectBatch(s) ==
    /\ pc[s] = "cwb_loop"
    /\ NextBatchable(s) # 0
    /\ LET l == loc[s]
           i == NextBatchable(s)
           u == UserOrder[i]
           total == GroupTotal(l.pending, u)
           v == Visible(s).batch
           found == {b \in DOMAIN v : v[b].userId = u /\ v[b].weekOf = l.week_of}
       IN /\ Cardinality(found) <= 1       \* scalar_one_or_none
          /\ found = {} => HasFreshBatchId
          /\ loc' = [loc EXCEPT ![s] = [l EXCEPT
                !.pos = i,
                !.batch = IF found # {}
                          THEN LET b == CHOOSE x \in found : TRUE
                               IN [id |-> b, isNew |-> FALSE, userId |-> u,
                                   totalAmount |-> v[b].totalAmount + total]
                          ELSE [id |-> FreshBatchId, isNew |-> TRUE, userId |-> u,
                                totalAmount |-> total]]]
    /\ pc' = [pc EXCEPT ![s] = "cwb_flush"]
    /\ UNCHANGED <<db, tx, ret, week, stripe, change, plaid, handled, partner, cache, now>>

\* line 125: flush() emits the INSERT, or the UPDATE of totalAmount
CwbFlush(s) ==
    /\ pc[s] = "cwb_flush"
    /\ LET b == loc[s].batch
       IN IF b.isNew
          THEN /\ ~BatchKeyPending(s, b.userId, loc[s].week_of)
               /\ ~BatchKeyTaken(b.userId, loc[s].week_of)
               /\ BatchIdFree(b.id)
               /\ tx' = [tx EXCEPT ![s].batch =
                            PutRow(@, b.id, NewBatchRow(b.userId, loc[s].week_of, b.totalAmount))]
          ELSE /\ ~LockedByOther(s, "batch", b.id)
               /\ tx' = [tx EXCEPT ![s].batch = PutRow(@, b.id, [totalAmount |-> b.totalAmount])]
    /\ pc' = [pc EXCEPT ![s] = "cwb_attach"]
    /\ UNCHANGED <<db, loc, ret, week, stripe, change, plaid, handled, partner, cache, now>>

\* line 125 raising IntegrityError: the unit of work ends, the session is closed
\* (main.py:32-37, api/jobs.py:171-175) and its transaction rolled back
CwbFlushConflict(s) ==
    /\ pc[s] = "cwb_flush"
    /\ loc[s].batch.isNew
    /\ ~BatchKeyPending(s, loc[s].batch.userId, loc[s].week_of)
    /\ BatchKeyTaken(loc[s].batch.userId, loc[s].week_of)
    /\ tx' = [tx EXCEPT ![s] = EmptyTx]
    /\ pc' = [pc EXCEPT ![s] = "idle"]
    /\ loc' = [loc EXCEPT ![s] = NoLoc]
    /\ ret' = [ret EXCEPT ![s] = Raised("IntegrityError")]
    /\ UNCHANGED <<db, week, stripe, change, plaid, handled, partner, cache, now>>

\* lines 128-145: donation.batchId = batch.id for the group, flushed by the
\* UPDATE of their transactions to BATCHED
CwbAttach(s) ==
    /\ pc[s] = "cwb_attach"
    /\ LET l == loc[s]
           u == UserOrder[l.pos]
           grp == GroupOf(l.pending, u)
           tids == {l.pending[d].transactionId : d \in grp} \ {NoId}
           v == Visible(s)
       IN /\ \A d \in grp : ~LockedByOther(s, "donation", d)
          /\ \A t \in tids : ~LockedByOther(s, "txn", t)
          /\ \A d \in grp : d \in DOMAIN v.donation
          /\ tx' = [tx EXCEPT
                ![s].donation = [d \in DOMAIN @ \cup grp |->
                                    IF d \in grp THEN PutRow(@, d, [batchId |-> l.batch.id])[d]
                                    ELSE @[d]],
                ![s].txn = [t \in DOMAIN @ \cup (tids \cap DOMAIN v.txn) |->
                                    IF t \in tids THEN PutRow(@, t, [status |-> "BATCHED"])[t]
                                    ELSE @[t]]]
          /\ loc' = [loc EXCEPT ![s] = [l EXCEPT !.pos = l.pos + 1,
                                               !.results = @ \cup {l.batch.id}]]
    /\ pc' = [pc EXCEPT ![s] = "cwb_loop"]
    /\ UNCHANGED <<db, ret, week, stripe, change, plaid, handled, partner, cache, now>>

\* line 147: commit() once no group is left
CwbCommit(s) ==
    /\ pc[s] = "cwb_loop"
    /\ NextBatchable(s) = 0
    /\ db' = Committed(s)
    /\ tx' = [tx EXCEPT ![s] = EmptyTx]
    /\ pc' = [pc EXCEPT ![s] = "idle"]
    /\ ret' = [ret EXCEPT ![s] = Returned(loc[s].results)]
    /\ loc' = [loc EXCEPT ![s] = NoLoc]
    /\ UNCHANGED <<week, stripe, change, plaid, handled, partner, cache, now>>

InitBatch ==
    /\ db = [batch |-> <<>>, donation |-> <<>>, txn |-> <<>>,
             user |-> [u \in Users |-> UserRow(u = "u1")],
             event |-> <<>>, item |-> <<>>, account |-> <<>>,
             charity |-> [c \in {"c1"} |-> [ein |-> "ein1"]]]
    /\ tx = [s \in Sessions |-> EmptyTx]
    /\ pc = [s \in Sessions |-> "idle"]
    /\ loc = [s \in Sessions |-> NoLoc]
    /\ ret = [s \in Sessions |-> NoRet]
    /\ week = 1
    /\ stripe = <<>>
    /\ change = [d \in DonationIds |-> 0]
    /\ plaid = <<>>
    /\ handled = <<>>
    /\ partner = NoPartner
    /\ cache = NoCache
    /\ now = 0

NextBatch ==
    \/ AdvanceWeek
    \/ \E u \in Users, amt \in Amounts : MatchCommitted(u, amt)
    \/ \E s \in Sessions :
        \/ CwbSelectPending(s)
        \/ CwbSelectBatch(s)
        \/ CwbFlush(s)
        \/ CwbFlushConflict(s)
        \/ CwbAttach(s)
        \/ CwbCommit(s)

SpecBatch == InitBatch /\ [][NextBatch]_vars

\* ------------------------------------------- Payment & Distribution Orchestrator
\* int(float(x) * 100) of a two-decimal amount held as c cents: the binary
\* product falls just short of c for these values (below 2.56) and int() truncates
TruncatedCents == {29, 57, 58, 113, 114, 115, 116, 201, 203, 205, 207, 226, 228, 230, 232,
                   251, 253, 255}

ToCents(c) == IF c \in TruncatedCents THEN c - 1 ELSE c

\* the debits the payment processor was asked for on behalf of batch b.  Each
\* entry of `stripe` is one PaymentIntent: the status create_ach_payment answered
\* and how the processor settled it since ("none" while the debit is in flight)
DebitsOf(b) == {i \in 1..Len(stripe) : stripe[i].batch = b}

\* the number of disbursement requests the provider accepted for donation d
DisbursementsOf(d) == change[d]

\* all the disbursement requests accepted so far
TotalDisbursements == SumOver(DOMAIN change, change)

\* line 391: the batch statuses process_auto_donation_batch goes on with
ChargeableStatusesWide == {"PENDING", "READY", "FAILED"}

ChargeableStatuses == {"PENDING", "READY"}

\* lines 378-396: SELECT the batch with its donations and user; the status and
\* auto-donate guards.  A skip reason is the tuple of the message's parts
PadSelectBatch(s, b) ==
    /\ pc[s] = "idle"
    /\ b \in DOMAIN Visible(s).batch
    /\ LET v == Visible(s)
           row == v.batch[b]
       IN IF row.status \notin ChargeableStatuses
          THEN /\ ret' = [ret EXCEPT ![s] = Skipped(<<"Batch status is", row.status>>)]
               /\ UNCHANGED <<pc, loc, plaid, handled>>
          ELSE IF ~v.user[row.userId].autoDonateEnabled
          THEN /\ ret' = [ret EXCEPT ![s] = Skipped(<<"Auto-donate not enabled">>)]
               /\ UNCHANGED <<pc, loc, plaid, handled>>
          ELSE /\ ret' = [ret EXCEPT ![s] = Running]
               /\ pc' = [pc EXCEPT ![s] = "pad_account"]
               /\ loc' = [loc EXCEPT ![s] = [job |-> "process_auto_donation_batch",
                                             batch_id |-> b, batch |-> row, dirty |-> {},
                                             error |-> None]]
    /\ UNCHANGED <<db, tx, week, stripe, change, plaid, handled, partner, cache, now>>

\* get_ach_enabled_account (lines 352-368) and lines 399-410
PadGetAccount(s) ==
    /\ pc[s] = "pad_account"
    /\ LET v == Visible(s)
           u == loc[s].batch.userId
           accts == {a \in DOMAIN v.account :
                        /\ v.account[a].userId = u
                        /\ v.account[a].achEnabled
                        /\ v.account[a].stripePaymentMethodId # None}
       IN IF Cardinality(accts) > 1           \* scalar_one_or_none raises
          THEN /\ ret' = [ret EXCEPT ![s] = Raised("MultipleResultsFound")]
               /\ pc' = [pc EXCEPT ![s] = "idle"]
               /\ loc' = [loc EXCEPT ![s] = NoLoc]
          ELSE IF accts = {}
          THEN /\ ret' = [ret EXCEPT ![s] = Skipped(<<"No ACH account configured">>)]
               /\ pc' = [pc EXCEPT ![s] = "idle"]
               /\ loc' = [loc EXCEPT ![s] = NoLoc]
          ELSE IF v.user[u].stripeCustomerId = None
          THEN /\ ret' = [ret EXCEPT ![s] = Skipped(<<"No Stripe customer">>)]
               /\ pc' = [pc EXCEPT ![s] = "idle"]
               /\ loc' = [loc EXCEPT ![s] = NoLoc]
          ELSE /\ loc' = [loc EXCEPT ![s].batch.status = "PROCESSING",
                                     ![s].dirty = {"status"}]
               /\ pc' = [pc EXCEPT ![s] = "pad_flush"]
               /\ UNCHANGED ret
    /\ UNCHANGED <<db, tx, week, stripe, change, plaid, handled, partner, cache, now>>

\* the changed columns of the in-memory batch, as flush() writes them
DirtyCols(s) == [f \in loc[s].dirty |-> loc[s].batch[f]]

\* line 412: flush() emits UPDATE "DonationBatch" SET status = PROCESSING
PadFlush(s) ==
    /\ pc[s] = "pad_flush"
    /\ ~LockedByOther(s, "batch", loc[s].batch_id)
    /\ tx' = [tx EXCEPT ![s].batch = PutRow(@, loc[s].batch_id, DirtyCols(s))]
    /\ loc' = [loc EXCEPT ![s].dirty = {}]
    /\ pc' = [pc EXCEPT ![s] = "pad_stripe"]
    /\ UNCHANGED <<db, ret, week, stripe, change, plaid, handled, partner, cache, now>>

\* line 433: the PaymentIntent statuses taken as a debit under way
InitiatedStatusesWide == {"succeeded", "processing", "requires_action"}

InitiatedStatuses == {"succeeded", "processing"}

\* lines 414-443 and 456-459: stripe_service.create_ach_payment; `outcome` is the
\* PaymentIntent status the processor answers, or "error" when the call raises
PadStripe(s, outcome) ==
    /\ pc[s] = "pad_stripe"
    /\ Len(stripe) < MaxIntents
    /\ IF outcome = "error"
       THEN /\ UNCHANGED stripe
            /\ loc' = [loc EXCEPT ![s].batch.status = "FAILED",
                                  ![s].batch.stripePaymentStatus = "failed",
                                  ![s].dirty = {"status", "stripePaymentStatus"},
                                  ![s].error = "StripeError"]
            /\ pc' = [pc EXCEPT ![s] = "pad_failed"]
       ELSE /\ stripe' = Append(stripe, [batch |-> loc[s].batch_id,
                                         amount |-> ToCents(loc[s].batch.totalAmount),
                                         status |-> outcome,
                                         settled |-> IF outcome = "succeeded"
                                                     THEN "succeeded" ELSE "none"])
            /\ IF outcome \in InitiatedStatuses
               THEN /\ loc' = [loc EXCEPT ![s].batch.stripePaymentIntentId = Len(stripe) + 1,
                                          ![s].batch.stripePaymentStatus = outcome,
                                          ![s].dirty = {"stripePaymentIntentId",
                                                        "stripePaymentStatus"}]
                    /\ pc' = [pc EXCEPT ![s] = "pad_commit"]
               ELSE /\ loc' = [loc EXCEPT ![s].batch.stripePaymentIntentId = Len(stripe) + 1,
                                          ![s].batch.status = "FAILED",
                                          ![s].batch.stripePaymentStatus = "failed",
                                          ![s].dirty = {"stripePaymentIntentId", "status",
                                                        "stripePaymentStatus"},
                                          ![s].error = "ValueError"]
                    /\ pc' = [pc EXCEPT ![s] = "pad_failed"]
    /\ UNCHANGED <<db, tx, ret, week, change, plaid, handled, partner, cache, now>>

\* line 445: commit() of the charge id and status
PadCommit(s) ==
    /\ pc[s] = "pad_commit"
    /\ ~LockedByOther(s, "batch", loc[s].batch_id)
    /\ db' = [Committed(s) EXCEPT !.batch =
                ApplyWrites(@, loc[s].batch_id :> DirtyCols(s))]
    /\ tx' = [tx EXCEPT ![s] = EmptyTx]
    /\ ret' = [ret EXCEPT ![s] = Returned([paymentStatus |-> loc[s].batch.stripePaymentStatus])]
    /\ pc' = [pc EXCEPT ![s] = "idle"]
    /\ loc' = [loc EXCEPT ![s] = NoLoc]
    /\ UNCHANGED <<week, stripe, change, plaid, handled, partner, cache, now>>

\* lines 456-463: the batch is committed FAILED and the exception re-raised
PadCommitFailed(s) ==
    /\ pc[s] = "pad_failed"
    /\ ~LockedByOther(s, "batch", loc[s].batch_id)
    /\ db' = [Committed(s) EXCEPT !.batch =
                ApplyWrites(@, loc[s].batch_id :> DirtyCols(s))]
    /\ tx' = [tx EXCEPT ![s] = EmptyTx]
    /\ ret' = [ret EXCEPT ![s] = Raised(loc[s].error)]
    /\ pc' = [pc EXCEPT ![s] = "idle"]
    /\ loc' = [loc EXCEPT ![s] = NoLoc]
    /\ UNCHANGED <<week, stripe, change, plaid, handled, partner, cache, now>>

\* handle_ach_payment_succeeded lines 562-576: SELECT the batch of the payment
\* intent; mark the charge settled in memory.  The processor sends the
\* notification for a debit it settled, any number of times
HapsSelect(s, pi) ==
    /\ s \in Notified
    /\ pc[s] = "idle"
    /\ pi \in 1..Len(stripe)
    /\ stripe[pi].status \in {"succeeded", "processing"}
    /\ stripe[pi].settled # "failed"
    /\ stripe' = [stripe EXCEPT ![pi].settled = "succeeded"]
    /\ LET v == Visible(s).batch
           found == {b \in DOMAIN v : v[b].stripePaymentIntentId = pi}
       IN IF found = {}
          THEN /\ ret' = [ret EXCEPT ![s] = Returned([success |-> FALSE])]
               /\ UNCHANGED <<pc, loc, plaid, handled>>
          ELSE LET b == CHOOSE x \in found : TRUE
               IN /\ ret' = [ret EXCEPT ![s] = Running]
                  /\ pc' = [pc EXCEPT ![s] = "haps_commit"]
                  /\ loc' = [loc EXCEPT ![s] =
                        [job |-> "handle_ach_payment_succeeded", batch_id |-> b,
                         batch |-> [v[b] EXCEPT !.stripePaymentStatus = "succeeded"],
                         dirty |-> IF v[b].stripePaymentStatus = "succeeded" THEN {}
                                   ELSE {"stripePaymentStatus"},
                         error |-> None]]
    /\ UNCHANGED <<db, tx, week, change, plaid, handled, partner, cache, now>>

\* line 578: commit() of the settled status
HapsCommit(s) ==
    /\ pc[s] = "haps_commit"
    /\ loc[s].dirty # {} => ~LockedByOther(s, "batch", loc[s].batch_id)
    /\ db' = [Committed(s) EXCEPT !.batch =
                IF loc[s].dirty = {} THEN @
                ELSE ApplyWrites(@, loc[s].batch_id :> DirtyCols(s))]
    /\ tx' = [tx EXCEPT ![s] = EmptyTx]
    /\ loc' = [loc EXCEPT ![s].dirty = {}]
    /\ pc' = [pc EXCEPT ![s] = "dist_select"]
    /\ UNCHANGED <<ret, week, stripe, change, plaid, handled, partner, cache, now>>

\* distribute_donations_to_charities lines 473-485: SELECT the batch and load
\* batch.donations with their charities (every donation whose batchId is the batch)
DistSelect(s) ==
    /\ pc[s] = "dist_select"
    /\ LET v == Visible(s)
           ds == {d \in DOMAIN v.donation : v.donation[d].batchId = loc[s].batch_id}
       IN loc' = [loc EXCEPT ![s] = [job |-> "distribute_donations_to_charities",
                                     batch_id |-> loc[s].batch_id,
                                     donations |-> [d \in ds |-> v.donation[d]],
                                     todo |-> ds, changed |-> {},
                                     distribution_results |-> <<>>]]
    /\ pc' = [pc EXCEPT ![s] = "dist_loop"]
    /\ UNCHANGED <<db, tx, ret, week, stripe, change, plaid, handled, partner, cache, now>>

\* line 510: after a donation whose charity cannot be resolved the loop goes on
\* with the rest
StopAfter(todo, d) == {}

ContinueAfter(todo, d) == todo \ {d}

\* lines 487-544, one donation of the loop (in id order).  `found` is whether
\* get_nonprofit_by_ein resolves the charity, `ok` whether create_donation
\* succeeds (it raises ChangeApiError otherwise)
DistOne(s, found, ok) ==
    /\ pc[s] = "dist_loop"
    /\ loc[s].todo # {}
    /\ LET d == CHOOSE x \in loc[s].todo : \A y \in loc[s].todo : x <= y
           obj == loc[s].donations[d]
           charity == Visible(s).charity[obj.charityId]
           resolved == charity.ein # None /\ found
       IN IF ~resolved
          THEN /\ loc' = [loc EXCEPT ![s].donations[d].status = "FAILED",
                             ![s].donations[d].errorMessage = "Charity not available for auto-donation",
                             ![s].todo = ContinueAfter(@, d), ![s].changed = @ \cup {d},
                             ![s].distribution_results =
                                Append(@, [donationId |-> d, success |-> FALSE,
                                           error |-> "No Change nonprofit ID"])]
               /\ UNCHANGED change
          ELSE IF ok
          THEN /\ TotalDisbursements < MaxDisbursements
               /\ change' = [change EXCEPT ![d] = @ + 1]
               /\ loc' = [loc EXCEPT ![s].donations[d].changeId = TotalDisbursements + 1,
                                     ![s].donations[d].status = "PROCESSING",
                                     ![s].todo = @ \ {d}, ![s].changed = @ \cup {d},
                                     ![s].distribution_results =
                                        Append(@, [donationId |-> d, success |-> TRUE,
                                                   error |-> None])]
          ELSE /\ loc' = [loc EXCEPT ![s].donations[d].status = "FAILED",
                                     ![s].donations[d].errorMessage = "ChangeApiError",
                                     ![s].todo = @ \ {d}, ![s].changed = @ \cup {d},
                                     ![s].distribution_results =
                                        Append(@, [donationId |-> d, success |-> FALSE,
                                                   error |-> "ChangeApiError"])]
               /\ UNCHANGED change
    /\ UNCHANGED <<db, tx, pc, ret, week, stripe, plaid, handled, partner, cache, now>>

\* the columns distribute assigns, written for the donations it touched
DistWrites(s) ==
    [d \in loc[s].changed |->
        [status |-> loc[s].donations[d].status,
         changeId |-> loc[s].donations[d].changeId,
         errorMessage |-> loc[s].donations[d].errorMessage]]

\* line 546: commit() flushes the donations' new status, changeId and errorMessage
DistCommit(s) ==
    /\ pc[s] = "dist_loop"
    /\ loc[s].todo = {}
    /\ \A d \in loc[s].changed : ~LockedByOther(s, "donation", d)
    /\ \A d \in loc[s].changed : d \in DOMAIN db.donation
    /\ db' = [Committed(s) EXCEPT !.donation = ApplyWrites(@, DistWrites(s))]
    /\ tx' = [tx EXCEPT ![s] = EmptyTx]
    /\ ret' = [ret EXCEPT ![s] = Returned([success |-> TRUE,
                                           results |-> loc[s].distribution_results])]
    /\ pc' = [pc EXCEPT ![s] = "idle"]
    /\ loc' = [loc EXCEPT ![s] = NoLoc]
    /\ UNCHANGED <<week, stripe, change, plaid, handled, partner, cache, now>>

\* a store as the aggregator leaves it: one PENDING batch of user u1 holding every
\* donation, each drawn with an amount and a charity
InitPay ==
    /\ \E ch \in [DonationIds -> {"c1", "c2"}] :
       LET amt == [d \in DonationIds |-> IF d % 2 = 1 THEN 60 ELSE 100] IN
        db = [batch |-> (1 :> NewBatchRow("u1", 1, SumOver(DonationIds, amt))),
              donation |-> [d \in DonationIds |->
                              [NewDonationRow("u1", d, ch[d], amt[d]) EXCEPT !.batchId = 1]],
              txn |-> [d \in DonationIds |->
                              [MatchedTxnRow("u1", d, amt[d]) EXCEPT !.status = "BATCHED"]],
              user |-> [u \in Users |-> UserRow(u = "u1")],
              event |-> <<>>, item |-> <<>>,
              account |-> (1 :> [userId |-> "u1", achEnabled |-> TRUE,
                                 stripePaymentMethodId |-> "pm_1"]),
              charity |-> ("c1" :> [ein |-> "ein1"]) @@ ("c2" :> [ein |-> None])]
    /\ tx = [s \in Sessions |-> EmptyTx]
    /\ pc = [s \in Sessions |-> "idle"]
    /\ loc = [s \in Sessions |-> NoLoc]
    /\ ret = [s \in Sessions |-> NoRet]
    /\ week = 1
    /\ stripe = <<>>
    /\ change = [d \in DonationIds |-> 0]
    /\ plaid = <<>>
    /\ handled = <<>>
    /\ partner = NoPartner
    /\ cache = NoCache
    /\ now = 0

\* process_auto_donation_batch invocations, interleaved over the sessions
NextCharge ==
    \E s \in Sessions :
        \/ \E b \in BatchIds : PadSelectBatch(s, b)
        \/ PadGetAccount(s)
        \/ PadFlush(s)
        \/ \E o \in {"succeeded", "processing", "requires_action", "error"} : PadStripe(s, o)
        \/ PadCommit(s)
        \/ PadCommitFailed(s)

SpecCharge == InitPay /\ [][NextCharge]_vars

\* the bank accounts a user may have linked: none, or one that is or is not
\* enabled for ACH, with or without a payment method
AccountTables ==
    {<<>>} \cup {(1 :> [userId |-> "u1", achEnabled |-> ach, stripePaymentMethodId |-> pm]) :
                    ach \in BOOLEAN, pm \in {None, "pm_1"}}

\* a batch in any status whose user may have switched auto-donate off, may have
\* no ACH-enabled account and may have no Stripe customer
InitGuards ==
    /\ \E auto \in BOOLEAN, customer \in {None, "cus"}, accounts \in AccountTables,
          status \in {"PENDING", "READY", "PROCESSING", "COMPLETED", "FAILED"} :
       LET amt == [d \in DonationIds |-> IF d % 2 = 1 THEN 60 ELSE 100] IN
        db = [batch |-> (1 :> [NewBatchRow("u1", 1, SumOver(DonationIds, amt))
                                  EXCEPT !.status = status]),
              donation |-> [d \in DonationIds |->
                              [NewDonationRow("u1", d, "c1", amt[d]) EXCEPT !.batchId = 1]],
              txn |-> [d \in DonationIds |->
                              [MatchedTxnRow("u1", d, amt[d]) EXCEPT !.status = "BATCHED"]],
              user |-> [u \in Users |-> [UserRow(auto) EXCEPT !.stripeCustomerId = customer]],
              event |-> <<>>, item |-> <<>>,
              account |-> accounts,
              charity |-> ("c1" :> [ein |-> "ein1"]) @@ ("c2" :> [ein |-> None])]
    /\ tx = [s \in Sessions |-> EmptyTx]
    /\ pc = [s \in Sessions |-> "idle"]
    /\ loc = [s \in Sessions |-> NoLoc]
    /\ ret = [s \in Sessions |-> NoRet]
    /\ week = 1
    /\ stripe = <<>>
    /\ change = [d \in DonationIds |-> 0]
    /\ plaid = <<>>
    /\ handled = <<>>
    /\ partner = NoPartner
    /\ cache = NoCache
    /\ now = 0

SpecGuards == InitGuards /\ [][NextCharge]_vars

\* the charge followed by the processor's settlement notifications, one unit of
\* work after the other
NextSettle ==
    \E s \in Notified :
        \/ \E b \in BatchIds : PadSelectBatch(s, b)
        \/ PadGetAccount(s)
        \/ PadFlush(s)
        \/ \E o \in {"succeeded", "processing", "requires_action", "error"} : PadStripe(s, o)
        \/ PadCommit(s)
        \/ PadCommitFailed(s)
        \/ \E pi \in 1..MaxIntents : HapsSelect(s, pi)
        \/ HapsCommit(s)
        \/ DistSelect(s)
        \/ \E found \in BOOLEAN, ok \in BOOLEAN : DistOne(s, found, ok)
        \/ DistCommit(s)

SpecSettle == InitPay /\ [][NextSettle]_vars


\* ------------------------------------------------------------- Matching Engine
\* Decimal amounts are held in cents, multipliers (Numeric(3, 2)) in hundredths,
\* and their product in ten-thousandths.

\* int(transaction_amount): truncation toward zero
int_part(a) == IF a >= 0 THEN a \div 100 ELSE -((-a) \div 100)

\* matching_service.py:106-107
round_up_amount(a) == (int_part(a) + 1) * 100 - a

\* matching_service.py:110-113
base_amount(a) == IF round_up_amount(a) = 0 THEN 100 ELSE round_up_amount(a)

\* the ROUND_HALF_UP rounding of p ten-thousandths to cents
quantize_half_up(p) == (p + 50) \div 100

\* Decimal.quantize(Decimal("0.01")) of p ten-thousandths (p >= 0), in cents: the
\* default context rounds ROUND_HALF_EVEN
quantize(p) ==
    LET q == p \div 100
        r == p % 100
    IN IF r < 50 THEN q
       ELSE IF r > 50 THEN q + 1
       ELSE IF q % 2 = 0 THEN q ELSE q + 1

\* matching_service.py:99-116
calculate_donation_amount(transaction_amount, multiplier) ==
    quantize(base_amount(transaction_amount) * multiplier)

\* one call of calculate_donation_amount on the arguments held in loc
Calc(s) ==
    /\ pc[s] = "calc"
    /\ ret' = [ret EXCEPT ![s] = Returned(calculate_donation_amount(loc[s].transaction_amount,
                                                                    loc[s].multiplier))]
    /\ pc' = [pc EXCEPT ![s] = "idle"]
    /\ UNCHANGED <<db, tx, loc, week, stripe, change, plaid, handled, partner, cache, now>>

\* the arguments: any amount of 0.00 .. MaxAmount cents, any multiplier of
\* 0.00 .. MaxMultiplier hundredths
InitCalc ==
    /\ \E a \in 0..MaxAmount, m \in 0..MaxMultiplier :
        loc = [s \in Sessions |->
                 IF s \in Notified
                 THEN [job |-> "calculate_donation_amount", transaction_amount |-> a,
                       multiplier |-> m]
                 ELSE NoLoc]
    /\ pc = [s \in Sessions |-> IF s \in Notified THEN "calc" ELSE "idle"]
    /\ db = [t \in Tables |-> <<>>]
    /\ tx = [s \in Sessions |-> EmptyTx]
    /\ ret = [s \in Sessions |-> NoRet]
    /\ week = 1
    /\ stripe = <<>>
    /\ change = <<>>
    /\ plaid = <<>>
    /\ handled = <<>>
    /\ partner = NoPartner
    /\ cache = NoCache
    /\ now = 0

NextCalc == \E s \in Sessions : Calc(s)

SpecCalc == InitCalc /\ [][NextCalc]_vars

\* ------------------------------------------- matching data (tables no job writes)
\* BusinessMapping rows with isActive; `pattern in normalized` holds for the
\* merchant names listed
Mappings ==
    [m1 |-> [merchants |-> {"STARBUCKS"}, causeId |-> "k1"],
     m2 |-> [merchants |-> {"WHOLE FOODS"}, causeId |-> "k2"],
     m3 |-> [merchants |-> {"SHELL"}, causeId |-> "k3"]]

NoMapping == "NoMapping"

\* find_mapping (matching_service.py:62-74)
find_mapping(merchant_name) ==
    LET hits == {m \in DOMAIN Mappings : merchant_name \in Mappings[m].merchants}
    IN IF hits = {} THEN NoMapping ELSE CHOOSE m \in hits : TRUE

\* UserCause rows
UserCauses == {<<"u1", "k1">>, <<"u1", "k3">>}

\* user_has_cause (matching_service.py:77-84)
user_has_cause(user_id, cause_id) == <<user_id, cause_id>> \in UserCauses

\* get_default_charity (matching_service.py:87-96): the default active charity of
\* a cause, None when the cause has none
get_default_charity(cause_id) == IF cause_id = "k1" THEN "c1" ELSE None

\* Python truthiness of user.monthlyLimit: None and Decimal("0.00") are both falsy
Truthy(limit) == limit # NoLimit /\ limit[1] # 0

Abs(x) == IF x < 0 THEN -x ELSE x

\* ------------------------------------------------------------ Bank provider
Items == {"i1", "i2"}
TxnIds == 1..MaxTxns
SyncCodes == {"INITIAL_UPDATE", "HISTORICAL_UPDATE", "DEFAULT_UPDATE", "TRANSACTIONS_REMOVED",
              "SYNC_UPDATES_AVAILABLE"}

Entry(id, account, amount, merchant, pending) ==
    [transaction_id |-> id, account_id |-> account, amount |-> amount,
     merchant_name |-> merchant, pending |-> pending]

Page(added, modified, removed) == [added |-> added, modified |-> modified, removed |-> removed]

\* a page after which the provider has nothing more for now (has_more false);
\* the pages behind it are published later and reach a following sync
LastForNow(page) == [added |-> page.added, modified |-> page.modified,
                     removed |-> page.removed, last_for_now |-> TRUE]

\* the provider delivers the same page of added entries twice
FeedRepeat ==
    << Page(<<Entry(1, "acc1", -430, "STARBUCKS", FALSE), Entry(2, "acc1", -1250, "LOCAL CAFE", FALSE)>>,
            <<>>, <<>>),
       Page(<<Entry(1, "acc1", -430, "STARBUCKS", FALSE), Entry(2, "acc1", -1250, "LOCAL CAFE", FALSE)>>,
            <<>>, <<>>) >>

\* adds, then a page that modifies and removes them
FeedEdit ==
    << Page(<<Entry(1, "acc1", -430, "STARBUCKS", FALSE), Entry(2, "acc1", -1250, "WHOLE FOODS", FALSE)>>,
            <<>>, <<>>),
       Page(<<Entry(3, "acc1", -500, "SHELL", TRUE), Entry(5, "acc9", -500, "SHELL", FALSE),
              Entry(3, "acc1", -800, "SHELL", FALSE)>>,
            <<Entry(2, "acc1", -1300, "WHOLE FOODS", FALSE), Entry(6, "acc1", -100, "SHELL", FALSE)>>,
            <<1, 6>>) >>

\* an entry of the second page carries neither merchant_name nor name
FeedNameless ==
    << Page(<<Entry(1, "acc1", -430, "STARBUCKS", FALSE)>>, <<>>, <<>>),
       Page(<<Entry(2, "acc1", -1250, "LOCAL CAFE", FALSE), Entry(3, "acc1", -700, None, FALSE)>>,
            <<>>, <<>>) >>

FeedOther == << Page(<<Entry(4, "acc2", -290, "STARBUCKS", FALSE)>>, <<>>, <<>>) >>

\* plaid_client.transactions_sync(cursor): the page after `cursor` pages, the
\* cursor past it, and whether more follow (plaid_service.py:46-59)
PlaidSync(item, cursor) ==
    LET feed == plaid[item] IN
    IF cursor < Len(feed)
    THEN [added |-> feed[cursor + 1].added, modified |-> feed[cursor + 1].modified,
          removed |-> feed[cursor + 1].removed,
          next_cursor |-> cursor + 1,
          has_more |-> cursor + 1 < Len(feed) /\ "last_for_now" \notin DOMAIN feed[cursor + 1]]
    ELSE [added |-> <<>>, modified |-> <<>>, removed |-> <<>>,
          next_cursor |-> cursor, has_more |-> FALSE]

\* ------------------------------------------------------------ Ingestion
ZeroStats == [added |-> 0, modified |-> 0, removed |-> 0, matched |-> 0]

\* the frame of an ingestion job: `job` is the entry point, the rest are the
\* locals of daily_transaction_sync, handle_plaid_webhook and
\* sync_plaid_item_transactions, and those of retry_failed_webhooks when it is
\* the caller of handle_plaid_webhook
IngestLoc(job) ==
    [job |-> job,
     caller |-> None, failed_events |-> <<>>, max_retries |-> 0, results |-> <<>>,
     items |-> {}, synced |-> {}, errors |-> {},
     event_id |-> None, event |-> None, error |-> None, failed_page |-> 0,
     item_id |-> None, cursor |-> 0, has_more |-> TRUE, page |-> 0,
     response |-> None, todo |-> <<>>, blocked |-> None, matching |-> None,
     stats |-> ZeroStats]

\* a sync call that raised: which item, and the page it was fetching or applying
SyncRaised(e, item, page) == [kind |-> "raised", error |-> e, item |-> item, page |-> page]

\* Transaction.plaidTransactionId is unique (transaction.py:23)
TxnKeyTaken(s, ext) ==
    \E t \in DOMAIN Visible(s).txn : Visible(s).txn[t].plaidTransactionId = ext

\* another session's uncommitted INSERT holds the external id: the INSERT waits
TxnKeyPending(s, ext) ==
    \E o \in Sessions \ {s} : \E t \in DOMAIN tx[o].txn :
        /\ t \notin DOMAIN db.txn
        /\ tx[o].txn[t] # Deleted
        /\ tx[o].txn[t].plaidTransactionId = ext

TxnIdFree(t) == t \notin DOMAIN db.txn /\ \A o \in Sessions : t \notin DOMAIN tx[o].txn

HasFreshTxnId == \E t \in TxnIds : TxnIdFree(t)

\* generate_cuid()
FreshTxnId == CHOOSE t \in TxnIds : TxnIdFree(t) /\ \A c \in TxnIds : TxnIdFree(c) => t <= c

\* sync_transactions.py:113-119: a Transaction with the external id is already there
AlreadyExistsNever(s, ext) == FALSE

AlreadyExists(s, ext) ==
    \E t \in DOMAIN Visible(s).txn : Visible(s).txn[t].plaidTransactionId = ext

TxnByExternalId(s, ext) ==
    {t \in DOMAIN Visible(s).txn : Visible(s).txn[t].plaidTransactionId = ext}

\* the three loops over response.added, .modified and .removed as one work list
OpsOf(response) ==
    [i \in 1..Len(response.added) |-> [kind |-> "added", txn |-> response.added[i]]]
    \o [i \in 1..Len(response.modified) |-> [kind |-> "modified", txn |-> response.modified[i]]]
    \o [i \in 1..Len(response.removed) |->
            [kind |-> "removed", txn |-> [transaction_id |-> response.removed[i]]]]

\* sync_transactions.py:62-83 has run to the end of the page
PageAppliedEarly(l) == TRUE

PageApplied(l) == l.todo = <<>>

\* An exception leaves sync_plaid_item_transactions.  Under run_job
\* (api/jobs.py:45-52) the session is closed and its transaction rolled back;
\* daily_transaction_sync catches it and goes on with the same session
\* (sync_transactions.py:236-238); handle_plaid_webhook enters its except branch.
SyncRaise(s, e, page) ==
    LET l == loc[s] IN
    CASE l.job = "sync_plaid_item_transactions" ->
            /\ tx' = [tx EXCEPT ![s] = EmptyTx]
            /\ pc' = [pc EXCEPT ![s] = "idle"]
            /\ ret' = [ret EXCEPT ![s] = SyncRaised(e, l.item_id, page)]
            /\ loc' = [loc EXCEPT ![s] = NoLoc]
      [] l.job = "daily_transaction_sync" ->
            /\ pc' = [pc EXCEPT ![s] = "dly_loop"]
            /\ loc' = [loc EXCEPT ![s].errors = @ \cup {[item |-> l.item_id, page |-> page, error |-> e]},
                                  ![s].todo = <<>>, ![s].response = None, ![s].blocked = None]
            /\ UNCHANGED <<tx, ret>>
      [] l.job = "handle_plaid_webhook" ->
            /\ pc' = [pc EXCEPT ![s] = "wh_except"]
            /\ loc' = [loc EXCEPT ![s].error = e, ![s].failed_page = page,
                                  ![s].todo = <<>>, ![s].response = None, ![s].blocked = None]
            /\ UNCHANGED <<tx, ret>>

\* sync_plaid_item_transactions returns r to its caller
SyncReturn(s, r) ==
    LET l == loc[s] IN
    CASE l.job = "sync_plaid_item_transactions" ->
            /\ pc' = [pc EXCEPT ![s] = "idle"]
            /\ ret' = [ret EXCEPT ![s] = r]
            /\ loc' = [loc EXCEPT ![s] = NoLoc]
      [] l.job = "daily_transaction_sync" ->
            /\ pc' = [pc EXCEPT ![s] = "dly_loop"]
            /\ loc' = [loc EXCEPT ![s].synced = @ \cup {l.item_id},
                                  ![s].todo = <<>>, ![s].response = None]
            /\ UNCHANGED ret
      [] l.job = "handle_plaid_webhook" ->
            /\ pc' = [pc EXCEPT ![s] = "wh_complete"]
            /\ loc' = [loc EXCEPT ![s].todo = <<>>, ![s].response = None]
            /\ UNCHANGED ret

\* api/jobs.py:45-52: a background task syncs one item on a session of its own
JobSync(s, item) ==
    /\ pc[s] = "idle"
    /\ loc' = [loc EXCEPT ![s] = [IngestLoc("sync_plaid_item_transactions") EXCEPT !.item_id = item]]
    /\ pc' = [pc EXCEPT ![s] = "sync_start"]
    /\ ret' = [ret EXCEPT ![s] = Running]
    /\ UNCHANGED <<db, tx, week, stripe, change, plaid, handled, partner, cache, now>>

\* line 47: the connection statuses a sync goes on with
SyncableStatusesWide == {"ACTIVE", "ERROR"}

SyncableStatuses == {"ACTIVE"}

\* sync_transactions.py:37-55: SELECT the item, the status guard, the stored cursor
SyncStart(s) ==
    /\ pc[s] = "sync_start"
    /\ LET v == Visible(s).item
           i == loc[s].item_id
       IN IF i \notin DOMAIN v
          THEN SyncRaise(s, "ValueError", 0)
          ELSE IF v[i].status \notin SyncableStatuses
          THEN SyncReturn(s, Skipped(<<"Item status is", v[i].status>>)) /\ UNCHANGED tx
          ELSE /\ loc' = [loc EXCEPT ![s].cursor = v[i].cursor, ![s].has_more = TRUE,
                                     ![s].stats = ZeroStats, ![s].page = 0]
               /\ pc' = [pc EXCEPT ![s] = "sync_fetch"]
               /\ UNCHANGED <<tx, ret>>
    /\ UNCHANGED <<db, week, stripe, change, plaid, handled, partner, cache, now>>

\* line 59: the provider call, which answers a page or fails (an error of the
\* provider, or the response of line 59 not being the awaited one: the call of
\* the coroutine function plaid_service.sync_transactions is not awaited, and
\* line 62 then raises on it)
SyncFetch(s, fails) ==
    /\ pc[s] = "sync_fetch"
    /\ IF fails
       THEN SyncRaise(s, "PlaidError", loc[s].cursor + 1)
       ELSE LET response == PlaidSync(loc[s].item_id, loc[s].cursor)
            IN /\ loc' = [loc EXCEPT ![s].response = [next_cursor |-> response.next_cursor,
                                                      has_more |-> response.has_more],
                                     ![s].todo = OpsOf(response),
                                     ![s].page = loc[s].cursor + 1]
               /\ pc' = [pc EXCEPT ![s] = "sync_page"]
               /\ UNCHANGED <<tx, ret>>
    /\ UNCHANGED <<db, week, stripe, change, plaid, handled, partner, cache, now>>

\* the Transaction row _process_added_transaction builds (lines 138-151)
AddedTxnRow(user_id, account, txn) ==
    [userId |-> user_id, bankAccountId |-> account, plaidTransactionId |-> txn.transaction_id,
     merchantName |-> txn.merchant_name, amount |-> Abs(txn.amount), status |-> "PENDING",
     matchedMappingId |-> NoMapping]

\* process_transaction (matching_service.py:119-203) on the row just inserted:
\* the columns it sets on the transaction, the donation it adds (None when it
\* adds none) and the user's new currentMonthTotal
process_transaction(s, user_id, row) ==
    LET mapping == find_mapping(row.merchantName)
        user == Visible(s).user[user_id]
        donation_amount == calculate_donation_amount(row.amount, user.donationMultiplier)
        new_total == user.currentMonthTotal + donation_amount
        unmatched(cols) == [matched |-> FALSE, txn |-> cols, donation |-> None,
                            total |-> IF user_id \in DOMAIN Visible(s).user
                                      THEN user.currentMonthTotal ELSE 0]
    IN IF mapping = NoMapping
       THEN unmatched([status |-> "SKIPPED"])
       ELSE IF ~user_has_cause(user_id, Mappings[mapping].causeId)
       THEN unmatched([status |-> "SKIPPED", matchedMappingId |-> mapping])
       ELSE IF user_id \notin DOMAIN Visible(s).user
       THEN unmatched(<<>>)
       ELSE IF Truthy(user.monthlyLimit) /\ new_total > user.monthlyLimit[1]
       THEN unmatched([status |-> "SKIPPED", matchedMappingId |-> mapping])
       ELSE IF get_default_charity(Mappings[mapping].causeId) = None
       THEN unmatched(<<>>)
       ELSE [matched |-> TRUE,
             txn |-> [status |-> "MATCHED", matchedMappingId |-> mapping],
             donation |-> get_default_charity(Mappings[mapping].causeId),
             amount |-> donation_amount,
             total |-> new_total]

\* a flush that leaves the transaction's columns out
MatchWritesDonationOnly(w, s, user_id, t, m) ==
    [w EXCEPT
        ![s].donation = IF m.matched
                        THEN PutRow(@, t, NewDonationRow(user_id, t, m.donation, m.amount))
                        ELSE @,
        ![s].user = IF m.matched THEN PutRow(@, user_id, [currentMonthTotal |-> m.total])
                    ELSE @]

\* what the flush of process_transaction (matching_service.py:201) writes for a
\* match m of the inserted transaction t: the transaction's columns, the new
\* Donation and the user's total as computed from the row read at line 153
MatchWrites(w, s, user_id, t, m) ==
    [w EXCEPT
        ![s].txn = PutRow(@, t, m.txn),
        ![s].donation = IF m.matched
                        THEN PutRow(@, t, NewDonationRow(user_id, t, m.donation, m.amount))
                        ELSE @,
        ![s].user = IF m.matched THEN PutRow(@, user_id, [currentMonthTotal |-> m.total])
                    ELSE @]

\* the INSERT of the added entry has gone through: lines 66-73, the new row is
\* counted and matched, and process_transaction's changes are flushed.  When
\* another session holds the lock of the User row (its own uncommitted UPDATE),
\* the SELECT of line 153 has read the committed row and the UPDATE of the
\* flush waits for that session to end
InsertAndMatch(s, account) ==
    LET l == loc[s]
        txn == Head(l.todo).txn
        user_id == Visible(s).item[l.item_id].userId
        t == FreshTxnId
        row == AddedTxnRow(user_id, account, txn)
        m == process_transaction(s, user_id, row)
    IN /\ HasFreshTxnId
       /\ IF m.matched /\ LockedByOther(s, "user", user_id)
          THEN /\ tx' = [tx EXCEPT ![s].txn = PutRow(@, t, row)]
               /\ loc' = [loc EXCEPT ![s].blocked = None,
                                     ![s].matching = [t |-> t, user_id |-> user_id, m |-> m]]
               /\ pc' = [pc EXCEPT ![s] = "sync_match"]
          ELSE /\ tx' = MatchWrites([tx EXCEPT ![s].txn = PutRow(@, t, row)], s, user_id, t, m)
               /\ loc' = [loc EXCEPT ![s].todo = Tail(@), ![s].blocked = None,
                                     ![s].stats.added = @ + 1,
                                     ![s].stats.matched = IF m.matched THEN @ + 1 ELSE @]
               /\ pc' = [pc EXCEPT ![s] = "sync_page"]
       /\ UNCHANGED ret

\* matching_service.py:201, a flush that waited for the lock of the User row:
\* the UPDATE goes through with the total computed before the wait
SyncMatch(s) ==
    /\ pc[s] = "sync_match"
    /\ ~LockedByOther(s, "user", loc[s].matching.user_id)
    /\ tx' = MatchWrites(tx, s, loc[s].matching.user_id, loc[s].matching.t, loc[s].matching.m)
    /\ loc' = [loc EXCEPT ![s].todo = Tail(@), ![s].matching = None,
                          ![s].stats.added = @ + 1, ![s].stats.matched = @ + 1]
    /\ pc' = [pc EXCEPT ![s] = "sync_page"]
    /\ UNCHANGED <<db, ret, week, stripe, change, plaid, handled, partner, cache, now>>

\* lines 62-73, one entry of response.added: _process_added_transaction and, for
\* a created row, process_transaction
SyncAdded(s) ==
    /\ pc[s] = "sync_page"
    /\ loc[s].todo # <<>>
    /\ Head(loc[s].todo).kind = "added"
    /\ LET l == loc[s]
           txn == Head(l.todo).txn
           v == Visible(s)
           accounts == {a \in DOMAIN v.account :
                           /\ v.account[a].plaidAccountId = txn.account_id
                           /\ v.account[a].plaidItemId = l.item_id}
           skip == /\ loc' = [loc EXCEPT ![s].todo = Tail(@)]
                   /\ UNCHANGED <<tx, pc, ret>>
       IN IF txn.pending THEN skip
          ELSE IF AlreadyExists(s, txn.transaction_id) THEN skip
          ELSE IF accounts = {} THEN skip
          ELSE IF txn.merchant_name = None
          THEN SyncRaise(s, "AttributeError", l.page)
          ELSE IF TxnKeyPending(s, txn.transaction_id)
          THEN /\ loc' = [loc EXCEPT ![s].blocked = CHOOSE a \in accounts : TRUE]
               /\ pc' = [pc EXCEPT ![s] = "sync_insert"]
               /\ UNCHANGED <<tx, ret>>
          ELSE IF TxnKeyTaken(s, txn.transaction_id)
          THEN SyncRaise(s, "IntegrityError", l.page)
          ELSE InsertAndMatch(s, CHOOSE a \in accounts : TRUE)
    /\ UNCHANGED <<db, week, stripe, change, plaid, handled, partner, cache, now>>

\* line 153, an INSERT that waited for a concurrent INSERT of the same external
\* id: IntegrityError if that one committed, the insert if it rolled back
SyncInsert(s) ==
    /\ pc[s] = "sync_insert"
    /\ ~TxnKeyPending(s, Head(loc[s].todo).txn.transaction_id)
    /\ IF TxnKeyTaken(s, Head(loc[s].todo).txn.transaction_id)
       THEN SyncRaise(s, "IntegrityError", loc[s].page)
       ELSE InsertAndMatch(s, loc[s].blocked)
    /\ UNCHANGED <<db, week, stripe, change, plaid, handled, partner, cache, now>>

\* lines 76-78, one entry of response.modified: _process_modified_transaction
SyncModified(s) ==
    /\ pc[s] = "sync_page"
    /\ loc[s].todo # <<>>
    /\ Head(loc[s].todo).kind = "modified"
    /\ LET txn == Head(loc[s].todo).txn
           found == TxnByExternalId(s, txn.transaction_id)
       IN IF found = {}
          THEN /\ loc' = [loc EXCEPT ![s].todo = Tail(@)]
               /\ UNCHANGED <<tx, pc, ret>>
          ELSE IF txn.merchant_name = None
          THEN SyncRaise(s, "AttributeError", loc[s].page)
          ELSE LET t == CHOOSE x \in found : TRUE
               IN /\ ~LockedByOther(s, "txn", t)
                  /\ tx' = [tx EXCEPT ![s].txn = PutRow(@, t, [merchantName |-> txn.merchant_name,
                                                                amount |-> Abs(txn.amount)])]
                  /\ loc' = [loc EXCEPT ![s].todo = Tail(@), ![s].stats.modified = @ + 1]
                  /\ UNCHANGED <<pc, ret>>
    /\ UNCHANGED <<db, week, stripe, change, plaid, handled, partner, cache, now>>

\* lines 81-83, one entry of response.removed: _process_removed_transaction
SyncRemoved(s) ==
    /\ pc[s] = "sync_page"
    /\ loc[s].todo # <<>>
    /\ Head(loc[s].todo).kind = "removed"
    /\ LET txn == Head(loc[s].todo).txn
           v == Visible(s)
           found == TxnByExternalId(s, txn.transaction_id)
       IN IF found = {}
          THEN /\ loc' = [loc EXCEPT ![s].todo = Tail(@)]
               /\ UNCHANGED <<tx, pc, ret>>
          ELSE LET t == CHOOSE x \in found : TRUE
                   ds == {d \in DOMAIN v.donation : v.donation[d].transactionId = t}
               IN /\ ~LockedByOther(s, "txn", t)
                  /\ \A d \in ds : ~LockedByOther(s, "donation", d)
                  /\ tx' = [tx EXCEPT
                        ![s].txn = PutRow(@, t, Deleted),
                        ![s].donation = [d \in DOMAIN @ \cup ds |->
                                            IF d \in ds THEN Deleted ELSE @[d]]]
                  /\ loc' = [loc EXCEPT ![s].todo = Tail(@), ![s].stats.removed = @ + 1]
                  /\ UNCHANGED <<pc, ret>>
    /\ UNCHANGED <<db, week, stripe, change, plaid, handled, partner, cache, now>>

\* lines 85-86 and the loop test of line 57
SyncPageDone(s) ==
    /\ pc[s] = "sync_page"
    /\ PageApplied(loc[s])
    /\ loc' = [loc EXCEPT ![s].cursor = loc[s].response.next_cursor,
                          ![s].has_more = loc[s].response.has_more]
    /\ pc' = [pc EXCEPT ![s] = IF loc[s].response.has_more THEN "sync_fetch" ELSE "sync_commit"]
    /\ UNCHANGED <<db, tx, ret, week, stripe, change, plaid, handled, partner, cache, now>>

\* lines 88-98: the cursor is stored on the item and the unit of work committed
SyncCommit(s) ==
    /\ pc[s] = "sync_commit"
    /\ ~LockedByOther(s, "item", loc[s].item_id)
    /\ db' = [Committed(s) EXCEPT !.item =
                ApplyWrites(@, loc[s].item_id :> [cursor |-> loc[s].cursor])]
    /\ tx' = [tx EXCEPT ![s] = EmptyTx]
    /\ SyncReturn(s, Returned([success |-> TRUE, stats |-> loc[s].stats]))
    /\ UNCHANGED <<week, stripe, change, plaid, handled, partner, cache, now>>

\* daily_transaction_sync lines 222-230: SELECT the ACTIVE items
DlySelect(s) ==
    /\ pc[s] = "idle"
    /\ LET v == Visible(s).item
       IN loc' = [loc EXCEPT ![s] = [IngestLoc("daily_transaction_sync") EXCEPT
                        !.items = {i \in DOMAIN v : v[i].status = "ACTIVE"}]]
    /\ pc' = [pc EXCEPT ![s] = "dly_loop"]
    /\ ret' = [ret EXCEPT ![s] = Running]
    /\ UNCHANGED <<db, tx, week, stripe, change, plaid, handled, partner, cache, now>>

\* lines 232-234: the next item of the loop (the SELECT has no ORDER BY)
DlyNext(s, i) ==
    /\ pc[s] = "dly_loop"
    /\ i \in loc[s].items
    /\ loc' = [loc EXCEPT ![s].items = @ \ {i}, ![s].item_id = i]
    /\ pc' = [pc EXCEPT ![s] = "sync_start"]
    /\ UNCHANGED <<db, tx, ret, week, stripe, change, plaid, handled, partner, cache, now>>

\* lines 240-248: the summary; the wrapper (main.py:18-26) then closes the session
DlyFinish(s) ==
    /\ pc[s] = "dly_loop"
    /\ loc[s].items = {}
    /\ ret' = [ret EXCEPT ![s] = Returned([successful |-> loc[s].synced, errors |-> loc[s].errors])]
    /\ tx' = [tx EXCEPT ![s] = EmptyTx]
    /\ pc' = [pc EXCEPT ![s] = "idle"]
    /\ loc' = [loc EXCEPT ![s] = NoLoc]
    /\ UNCHANGED <<db, week, stripe, change, plaid, handled, partner, cache, now>>

\* reset_monthly_totals (process_donations.py:302-317): one UPDATE of every user,
\* committed
ResetMonthlyTotals(s) ==
    /\ pc[s] = "idle"
    /\ \A u \in DOMAIN db.user : ~LockedByOther(s, "user", u)
    /\ db' = [db EXCEPT !.user = [u \in DOMAIN @ |-> [@[u] EXCEPT !.currentMonthTotal = 0]]]
    /\ ret' = [ret EXCEPT ![s] = Returned([usersReset |-> Cardinality(DOMAIN db.user)])]
    /\ UNCHANGED <<tx, pc, loc, week, stripe, change, plaid, handled, partner, cache, now>>

\* ------------------------------------------------------------ Webhook Processor
\* line 34: the statuses handle_plaid_webhook goes on with
HandledStatusesWide == {"PENDING", "FAILED"}

HandledStatuses == {"PENDING"}

\* handle_plaid_webhook lines 26-37: SELECT the event; only a PENDING one is handled
WhSelect(s, e) ==
    /\ pc[s] = "idle"
    /\ LET v == Visible(s).event
       IN IF e \notin DOMAIN v
          THEN /\ ret' = [ret EXCEPT ![s] = Raised("ValueError")]
               /\ UNCHANGED <<pc, loc>>
          ELSE IF v[e].status \notin HandledStatuses
          THEN /\ ret' = [ret EXCEPT ![s] = Skipped(<<"Event status is", v[e].status>>)]
               /\ UNCHANGED <<pc, loc>>
          ELSE /\ loc' = [loc EXCEPT ![s] = [IngestLoc("handle_plaid_webhook") EXCEPT
                                !.event_id = e,
                                !.event = [v[e] EXCEPT !.status = "PROCESSING"]]]
               /\ pc' = [pc EXCEPT ![s] = "wh_flush"]
               /\ ret' = [ret EXCEPT ![s] = Running]
    /\ UNCHANGED <<db, tx, week, stripe, change, plaid, handled, partner, cache, now>>

\* line 38: flush() emits UPDATE "WebhookEvent" SET status = PROCESSING
WhFlush(s) ==
    /\ pc[s] = "wh_flush"
    /\ ~LockedByOther(s, "event", loc[s].event_id)
    /\ loc[s].event_id \in DOMAIN db.event
    /\ tx' = [tx EXCEPT ![s].event = PutRow(@, loc[s].event_id, [status |-> "PROCESSING"])]
    /\ pc' = [pc EXCEPT ![s] = "wh_dispatch"]
    /\ UNCHANGED <<db, loc, ret, week, stripe, change, plaid, handled, partner, cache, now>>

\* the PlaidItem status an ITEM webhook code sets (_handle_item_webhook, lines 127-159)
ItemStatusForExpiring(code) ==
    CASE code = "ERROR" -> "ERROR"
      [] code = "LOGIN_REPAIRED" -> "ACTIVE"
      [] code = "PENDING_EXPIRATION" -> "ERROR"
      [] code = "USER_PERMISSION_REVOKED" -> "DISCONNECTED"
      [] OTHER -> None

\* lines 128-130: payload.get("error", {}).get("error_code")
ErrorCodeOf(payload) ==
    IF "error" \in DOMAIN payload THEN payload.error.error_code ELSE None

ItemStatusFor(code) ==
    CASE code = "ERROR" -> "ERROR"
      [] code = "LOGIN_REPAIRED" -> "ACTIVE"
      [] code = "PENDING_EXPIRATION" -> "LOGIN_REQUIRED"
      [] code = "USER_PERMISSION_REVOKED" -> "DISCONNECTED"
      [] OTHER -> None

\* lines 40-66: find the item of the payload and dispatch on the webhook type
\* (_handle_transactions_webhook, _handle_item_webhook)
WhDispatch(s) ==
    /\ pc[s] = "wh_dispatch"
    /\ LET payload == loc[s].event.payload
           v == Visible(s).item
           found == {i \in DOMAIN v : v[i].itemId = payload.item_id}
           syncs == [loc EXCEPT ![s].item_id = CHOOSE i \in found : TRUE]
       IN IF found = {}
          THEN /\ loc' = [loc EXCEPT ![s].error = "ValueError"]
               /\ pc' = [pc EXCEPT ![s] = "wh_except"]
               /\ UNCHANGED tx
          ELSE IF payload.webhook_type = "TRANSACTIONS"
          THEN /\ UNCHANGED tx
               /\ IF payload.webhook_code \in SyncCodes
                  THEN loc' = syncs /\ pc' = [pc EXCEPT ![s] = "sync_start"]
                  ELSE UNCHANGED loc /\ pc' = [pc EXCEPT ![s] = "wh_complete"]
          ELSE IF payload.webhook_type = "ITEM" /\ ItemStatusFor(payload.webhook_code) # None
          THEN LET i == CHOOSE x \in found : TRUE
               IN /\ ~LockedByOther(s, "item", i)
                  /\ tx' = [tx EXCEPT ![s].item = PutRow(@, i,
                                [status |-> ItemStatusFor(payload.webhook_code),
                                 errorCode |-> IF payload.webhook_code = "ERROR"
                                               THEN ErrorCodeOf(payload)
                                               ELSE IF payload.webhook_code = "LOGIN_REPAIRED"
                                               THEN None ELSE v[i].errorCode])]
                  /\ IF payload.webhook_code = "LOGIN_REPAIRED"
                     THEN loc' = syncs /\ pc' = [pc EXCEPT ![s] = "sync_start"]
                     ELSE UNCHANGED loc /\ pc' = [pc EXCEPT ![s] = "wh_complete"]
          ELSE /\ UNCHANGED <<tx, loc>>
               /\ pc' = [pc EXCEPT ![s] = "wh_complete"]
    /\ UNCHANGED <<db, ret, week, stripe, change, plaid, handled, partner, cache, now>>

\* handle_plaid_webhook is over: back in the loop of retry_failed_webhooks
\* (lines 194-197) with one more result
BackToRetry(l, success, error) ==
    [IngestLoc("retry_failed_webhooks") EXCEPT
        !.failed_events = Tail(l.failed_events),
        !.max_retries = l.max_retries,
        !.results = Append(l.results, [eventId |-> l.event_id, success |-> success,
                                       error |-> error])]

\* lines 69-70: the columns assigned on the event object after the handler returned
CompletedColsUnstamped == [status |-> "COMPLETED"]

CompletedCols == [status |-> "COMPLETED", processedAt |-> "now"]

\* lines 68-78: the event is set COMPLETED with its processedAt, and committed
WhComplete(s) ==
    /\ pc[s] = "wh_complete"
    /\ ~LockedByOther(s, "event", loc[s].event_id)
    /\ db' = [Committed(s) EXCEPT !.event = ApplyWrites(@, loc[s].event_id :> CompletedCols)]
    /\ tx' = [tx EXCEPT ![s] = EmptyTx]
    /\ handled' = [handled EXCEPT ![loc[s].event_id] = @ + 1]
    /\ IF loc[s].caller = "retry_failed_webhooks"
       THEN /\ pc' = [pc EXCEPT ![s] = "rt_loop"]
            /\ loc' = [loc EXCEPT ![s] = BackToRetry(loc[s], TRUE, None)]
            /\ UNCHANGED ret
       ELSE /\ ret' = [ret EXCEPT ![s] = Returned([success |-> TRUE, event |-> loc[s].event_id])]
            /\ pc' = [pc EXCEPT ![s] = "idle"]
            /\ loc' = [loc EXCEPT ![s] = NoLoc]
    /\ UNCHANGED <<week, stripe, change, plaid, partner, cache, now>>

\* lines 81-83: the columns the except branch assigns on the event object l.event
FailedColsSameCount(l) ==
    [status |-> "FAILED", error |-> l.error, retryCount |-> l.event.retryCount]

FailedCols(l) ==
    [status |-> "FAILED", error |-> l.error, retryCount |-> l.event.retryCount + 1]

\* lines 80-85: the event is set FAILED with the error and one more retry, the
\* session committed, and the exception re-raised
WhFail(s) ==
    /\ pc[s] = "wh_except"
    /\ ~LockedByOther(s, "event", loc[s].event_id)
    /\ db' = [Committed(s) EXCEPT !.event =
                ApplyWrites(@, loc[s].event_id :> FailedCols(loc[s]))]
    /\ tx' = [tx EXCEPT ![s] = EmptyTx]
    /\ IF loc[s].caller = "retry_failed_webhooks"   \* caught at lines 195-197
       THEN /\ pc' = [pc EXCEPT ![s] = "rt_loop"]
            /\ loc' = [loc EXCEPT ![s] = BackToRetry(loc[s], FALSE, loc[s].error)]
            /\ UNCHANGED ret
       ELSE /\ ret' = [ret EXCEPT ![s] = SyncRaised(loc[s].error, loc[s].item_id,
                                                    loc[s].failed_page)]
            /\ pc' = [pc EXCEPT ![s] = "idle"]
            /\ loc' = [loc EXCEPT ![s] = NoLoc]
    /\ UNCHANGED <<week, stripe, change, plaid, handled, partner, cache, now>>

\* the webhook payloads the provider sends
Payload(type, code, item) ==
    [webhook_type |-> type, webhook_code |-> code, item_id |-> item,
     error |-> [error_code |-> "ITEM_LOGIN_REQUIRED"]]

Payloads ==
    {Payload("TRANSACTIONS", "SYNC_UPDATES_AVAILABLE", "plaid-i1"),
     Payload("TRANSACTIONS", "RECURRING_TRANSACTIONS_UPDATE", "plaid-i1"),
     Payload("TRANSACTIONS", "DEFAULT_UPDATE", "plaid-gone"),
     Payload("ITEM", "ERROR", "plaid-i1"),
     Payload("ITEM", "LOGIN_REPAIRED", "plaid-i1"),
     Payload("ITEM", "PENDING_EXPIRATION", "plaid-i1"),
     Payload("ITEM", "WEBHOOK_UPDATE_ACKNOWLEDGED", "plaid-i1"),
     Payload("HOLDINGS", "DEFAULT_UPDATE", "plaid-i1")}

EventRow(payload) ==
    [source |-> "plaid", eventId |-> "wh_1", payload |-> payload, status |-> "PENDING",
     error |-> None, retryCount |-> 0, processedAt |-> None]

ItemRow(user_id, item_id) ==
    [userId |-> user_id, itemId |-> item_id, cursor |-> 0, status |-> "ACTIVE", errorCode |-> None]

\* one user with two linked bank items, nothing synced yet, and one webhook
\* event received; the user's cap, the feed of item i1 and the payload are drawn
InitStore(limits, feeds, payloads) ==
    /\ \E limit \in limits, payload \in payloads :
        db = [batch |-> <<>>, donation |-> <<>>, txn |-> <<>>,
              user |-> [u \in {"u1"} |-> [UserRow(TRUE) EXCEPT !.monthlyLimit = limit]],
              event |-> [e \in {"ev1"} |-> EventRow(payload)],
              item |-> [i \in Items |-> ItemRow("u1", IF i = "i1" THEN "plaid-i1" ELSE "plaid-i2")],
              account |-> [a \in {"a1", "a2"} |->
                             [plaidItemId |-> IF a = "a1" THEN "i1" ELSE "i2",
                              plaidAccountId |-> IF a = "a1" THEN "acc1" ELSE "acc2"]],
              charity |-> [c \in {"c1"} |-> [ein |-> "ein1"]]]
    /\ \E feed \in feeds : plaid = [i \in Items |-> IF i = "i1" THEN feed ELSE FeedOther]
    /\ tx = [s \in Sessions |-> EmptyTx]
    /\ pc = [s \in Sessions |-> "idle"]
    /\ loc = [s \in Sessions |-> NoLoc]
    /\ ret = [s \in Sessions |-> NoRet]
    /\ week = 1
    /\ stripe = <<>>
    /\ change = <<>>
    /\ handled = [e \in {"ev1"} |-> 0]
    /\ partner = NoPartner
    /\ cache = NoCache
    /\ now = 0

SyncSteps(s) ==
    \/ SyncStart(s)
    \/ \E fails \in BOOLEAN : SyncFetch(s, fails)
    \/ SyncAdded(s)
    \/ SyncModified(s)
    \/ SyncRemoved(s)
    \/ SyncPageDone(s)
    \/ SyncCommit(s)

WebhookSteps(s) ==
    \/ \E e \in {"ev1", "ev0"} : WhSelect(s, e)
    \/ WhFlush(s)
    \/ WhDispatch(s)
    \/ WhComplete(s)
    \/ WhFail(s)

InitIngest == InitStore({NoLimit, <<0>>, <<75>>}, {FeedRepeat, FeedEdit, FeedNameless}, Payloads)

\* the ingestion jobs, run one after the other
NextIngest ==
    \E s \in Notified :
        \/ \E i \in Items \cup {"i0"} : JobSync(s, i)
        \/ SyncSteps(s)
        \/ DlySelect(s)
        \/ \E i \in Items : DlyNext(s, i)
        \/ DlyFinish(s)
        \/ ResetMonthlyTotals(s)
        \/ WebhookSteps(s)

SpecIngest == InitIngest /\ [][NextIngest]_vars

InitWebhook == InitStore({NoLimit}, {FeedEdit}, Payloads)

\* deliveries of the event handled concurrently with each other and with
\* requested syncs, each on a session of its own
NextWebhook ==
    \E s \in Sessions :
        \/ WebhookSteps(s)
        \/ \E i \in Items : JobSync(s, i)
        \/ SyncSteps(s)
        \/ SyncInsert(s)
        \/ SyncMatch(s)

SpecWebhook == InitWebhook /\ [][NextWebhook]_vars

\* --------------------------------------------------- Hand-over to matching
\* item i1 with one of three feeds and one SYNC_UPDATES_AVAILABLE notification
InitHandOff ==
    InitStore({NoLimit}, {FeedEdit, FeedRepeat, FeedNameless},
              {Payload("TRANSACTIONS", "SYNC_UPDATES_AVAILABLE", "plaid-i1")})

\* the notification's handler and requested syncs of the item, one at a time
NextHandOff ==
    \E s \in Notified :
        \/ JobSync(s, "i1")
        \/ SyncSteps(s)
        \/ WebhookSteps(s)

\* a started job runs to its end, syncs of the item keep being requested and
\* the provider's call succeeds again and again
FairHandOff ==
    /\ WF_vars(NextHandOff)
    /\ SF_vars(\E s \in Notified : JobSync(s, "i1"))
    /\ SF_vars(\E s \in Notified : SyncFetch(s, FALSE))

SpecHandOff == InitHandOff /\ [][NextHandOff]_vars /\ FairHandOff

\* ------------------------------------------------------- Connection health
\* PlaidItemStatus (plaid_item.py:9-13)
ItemStatuses == {"ACTIVE", "LOGIN_REQUIRED", "ERROR", "DISCONNECTED"}

\* the ITEM notifications of _handle_item_webhook, one the handler does not
\* know, and a TRANSACTIONS notification, all about item i1
HealthPayloads ==
    {Payload("ITEM", code, "plaid-i1") :
        code \in {"ERROR", "LOGIN_REPAIRED", "PENDING_EXPIRATION", "USER_PERMISSION_REVOKED",
                  "WEBHOOK_UPDATE_ACKNOWLEDGED", "NEW_ACCOUNTS_AVAILABLE"}}
    \cup {Payload("TRANSACTIONS", "SYNC_UPDATES_AVAILABLE", "plaid-i1"),
          [webhook_type |-> "ITEM", webhook_code |-> "ERROR", item_id |-> "plaid-i1"]}

\* item i1 in any connection status (with the error code of an earlier ERROR
\* notification when it is in ERROR), item i2 ACTIVE, one notification received
InitHealth ==
    /\ \E payload \in HealthPayloads, status \in ItemStatuses :
        db = [batch |-> <<>>, donation |-> <<>>, txn |-> <<>>,
              user |-> [u \in {"u1"} |-> UserRow(TRUE)],
              event |-> [e \in {"ev1"} |-> EventRow(payload)],
              item |-> [i \in Items |->
                          IF i = "i1"
                          THEN [ItemRow("u1", "plaid-i1") EXCEPT
                                    !.status = status,
                                    !.errorCode = IF status = "ERROR" THEN "ITEM_LOCKED" ELSE None]
                          ELSE ItemRow("u1", "plaid-i2")],
              account |-> [a \in {"a1", "a2"} |->
                             [plaidItemId |-> IF a = "a1" THEN "i1" ELSE "i2",
                              plaidAccountId |-> IF a = "a1" THEN "acc1" ELSE "acc2"]],
              charity |-> [c \in {"c1"} |-> [ein |-> "ein1"]]]
    /\ plaid = [i \in Items |-> IF i = "i1" THEN FeedEdit ELSE FeedOther]
    /\ tx = [s \in Sessions |-> EmptyTx]
    /\ pc = [s \in Sessions |-> "idle"]
    /\ loc = [s \in Sessions |-> NoLoc]
    /\ ret = [s \in Sessions |-> NoRet]
    /\ week = 1
    /\ stripe = <<>>
    /\ change = <<>>
    /\ handled = [e \in {"ev1"} |-> 0]
    /\ partner = NoPartner
    /\ cache = NoCache
    /\ now = 0

SpecHealth == InitHealth /\ [][NextIngest]_vars

\* ---------------------------------------------------------------- Retry
\* the events in createdAt order, oldest first
\* a backlog of events, oldest first
ManyEvents ==
    <<"e01", "e02", "e03", "e04", "e05", "e06", "e07", "e08", "e09", "e10", "e11", "e12",
      "e13", "e14", "e15", "e16", "e17", "e18", "e19", "e20", "e21", "e22", "e23", "e24",
      "e25", "e26", "e27", "e28", "e29", "e30", "e31", "e32", "e33", "e34", "e35", "e36",
      "e37", "e38", "e39", "e40", "e41", "e42", "e43", "e44", "e45", "e46", "e47", "e48",
      "e49", "e50", "e51", "e52", "e53">>

EventOrder == <<"ev2", "ev1">> \o ManyEvents

\* line 182: LIMIT 50
RetryLimit == 50

LimitNone(seq, n) == seq

Limit(seq, n) == SubSeq(seq, 1, IF Len(seq) < n THEN Len(seq) ELSE n)

\* ORDER BY createdAt ASC over the event ids in S (line 181)
RECURSIVE OldestFirst(_, _)
OldestFirst(S, i) ==
    IF i > Len(EventOrder) THEN <<>>
    ELSE (IF EventOrder[i] \in S THEN <<EventOrder[i]>> ELSE <<>>) \o OldestFirst(S, i + 1)

\* the WHERE clause of retry_failed_webhooks (lines 178-180)
RetryableAny(row, max_retries) == row.source = "plaid" /\ row.status = "FAILED"

Retryable(row, max_retries) ==
    row.source = "plaid" /\ row.status = "FAILED" /\ row.retryCount < max_retries

\* retry_failed_webhooks lines 176-186: SELECT the FAILED events below the ceiling
RtSelect(s, max_retries) ==
    /\ pc[s] = "idle"
    /\ LET v == Visible(s).event
           sel == {e \in DOMAIN v : Retryable(v[e], max_retries)}
           ids == Limit(OldestFirst(sel, 1), RetryLimit)
       IN loc' = [loc EXCEPT ![s] = [IngestLoc("retry_failed_webhooks") EXCEPT
                        !.failed_events = [i \in 1..Len(ids) |->
                                             [id |-> ids[i], row |-> v[ids[i]]]],
                        !.max_retries = max_retries]]
    /\ pc' = [pc EXCEPT ![s] = "rt_loop"]
    /\ ret' = [ret EXCEPT ![s] = Running]
    /\ UNCHANGED <<db, tx, week, stripe, change, plaid, handled, partner, cache, now>>

\* lines 188-191: the next event is reset to PENDING and flushed
RtReset(s) ==
    /\ pc[s] = "rt_loop"
    /\ loc[s].failed_events # <<>>
    /\ LET ev == Head(loc[s].failed_events)
       IN /\ ~LockedByOther(s, "event", ev.id)
          /\ tx' = [tx EXCEPT ![s].event = PutRow(@, ev.id, [status |-> "PENDING"])]
          /\ loc' = [loc EXCEPT ![s].event_id = ev.id,
                                ![s].event = [ev.row EXCEPT !.status = "PENDING"]]
    /\ pc' = [pc EXCEPT ![s] = "rt_handle"]
    /\ UNCHANGED <<db, ret, week, stripe, change, plaid, handled, partner, cache, now>>

\* line 193 and handle_plaid_webhook lines 26-37 on the retry's session: the
\* SELECT answers the event object the session already holds, PENDING
RtHandle(s) ==
    /\ pc[s] = "rt_handle"
    /\ IF loc[s].event.status # "PENDING"
       THEN /\ pc' = [pc EXCEPT ![s] = "rt_loop"]
            /\ loc' = [loc EXCEPT ![s] = BackToRetry(loc[s], TRUE, None)]
       ELSE /\ pc' = [pc EXCEPT ![s] = "wh_flush"]
            /\ loc' = [loc EXCEPT ![s] = [IngestLoc("handle_plaid_webhook") EXCEPT
                            !.caller = "retry_failed_webhooks",
                            !.failed_events = loc[s].failed_events,
                            !.max_retries = loc[s].max_retries,
                            !.results = loc[s].results,
                            !.event_id = loc[s].event_id,
                            !.event = [loc[s].event EXCEPT !.status = "PROCESSING"]]]
    /\ UNCHANGED <<db, tx, ret, week, stripe, change, plaid, handled, partner, cache, now>>

\* lines 199-201: the summary; the job's session is closed (api/jobs.py:125-130)
RtFinish(s) ==
    /\ pc[s] = "rt_loop"
    /\ loc[s].failed_events = <<>>
    /\ tx' = [tx EXCEPT ![s] = EmptyTx]
    /\ ret' = [ret EXCEPT ![s] = Returned([totalRetried |-> Len(loc[s].results),
                                           results |-> loc[s].results])]
    /\ pc' = [pc EXCEPT ![s] = "idle"]
    /\ loc' = [loc EXCEPT ![s] = NoLoc]
    /\ UNCHANGED <<db, week, stripe, change, plaid, handled, partner, cache, now>>

\* a WebhookEvent as an earlier failed handling left it
FailedEventRow(payload, retryCount) ==
    [EventRow(payload) EXCEPT !.eventId = "wh_2", !.status = "FAILED",
                              !.error = "ValueError", !.retryCount = retryCount]

\* one event just received and an older delivery that failed retryCount times
InitRetry ==
    /\ \E payload \in Payloads, count \in 1..MaxRetries, item \in {"plaid-i2", "plaid-gone"} :
        db = [batch |-> <<>>, donation |-> <<>>, txn |-> <<>>,
              user |-> [u \in {"u1"} |-> UserRow(TRUE)],
              event |-> ("ev1" :> EventRow(payload))
                        @@ ("ev2" :> FailedEventRow(
                                Payload("TRANSACTIONS", "DEFAULT_UPDATE", item), count)),
              item |-> [i \in Items |-> ItemRow("u1", IF i = "i1" THEN "plaid-i1" ELSE "plaid-i2")],
              account |-> [a \in {"a1", "a2"} |->
                             [plaidItemId |-> IF a = "a1" THEN "i1" ELSE "i2",
                              plaidAccountId |-> IF a = "a1" THEN "acc1" ELSE "acc2"]],
              charity |-> [c \in {"c1"} |-> [ein |-> "ein1"]]]
    /\ plaid = [i \in Items |-> IF i = "i1" THEN FeedEdit ELSE FeedOther]
    /\ tx = [s \in Sessions |-> EmptyTx]
    /\ pc = [s \in Sessions |-> "idle"]
    /\ loc = [s \in Sessions |-> NoLoc]
    /\ ret = [s \in Sessions |-> NoRet]
    /\ week = 1
    /\ stripe = <<>>
    /\ change = <<>>
    /\ handled = [e \in {"ev1", "ev2"} |-> 0]
    /\ partner = NoPartner
    /\ cache = NoCache
    /\ now = 0

RetrySteps(s) ==
    \/ \E m \in 1..MaxRetries : RtSelect(s, m)
    \/ RtReset(s)
    \/ RtHandle(s)
    \/ RtFinish(s)

\* deliveries handled and retries requested, one unit of work after the other
NextRetry ==
    \E s \in Notified :
        \/ \E e \in {"ev1", "ev2", "ev0"} : WhSelect(s, e)
        \/ WhFlush(s)
        \/ WhDispatch(s)
        \/ WhComplete(s)
        \/ WhFail(s)
        \/ SyncSteps(s)
        \/ RetrySteps(s)

SpecRetry == InitRetry /\ [][NextRetry]_vars

\* a backlog of failed deliveries: every third one names an item that is gone
\* (handling it fails again), the others carry a type no handler takes (handling
\* completes); "e03" is at the ceiling and "e04" is COMPLETED
BacklogRow(i) ==
    LET row == FailedEventRow(IF i % 3 = 1
                              THEN Payload("TRANSACTIONS", "DEFAULT_UPDATE", "plaid-gone")
                              ELSE Payload("HOLDINGS", "DEFAULT_UPDATE", "plaid-i1"),
                              IF i = 3 THEN MaxRetries ELSE 1)
    IN IF i = 4 THEN [row EXCEPT !.status = "COMPLETED", !.error = None, !.retryCount = 0]
       ELSE row

InitBacklog ==
    /\ db = [batch |-> <<>>, donation |-> <<>>, txn |-> <<>>,
             user |-> [u \in {"u1"} |-> UserRow(TRUE)],
             event |-> [e \in {ManyEvents[i] : i \in 1..Len(ManyEvents)} |->
                          BacklogRow(CHOOSE i \in 1..Len(ManyEvents) : ManyEvents[i] = e)],
             item |-> [i \in Items |-> ItemRow("u1", IF i = "i1" THEN "plaid-i1" ELSE "plaid-i2")],
             account |-> <<>>,
             charity |-> [c \in {"c1"} |-> [ein |-> "ein1"]]]
    /\ plaid = [i \in Items |-> <<>>]
    /\ tx = [s \in Sessions |-> EmptyTx]
    /\ pc = [s \in Sessions |-> "idle"]
    /\ loc = [s \in Sessions |-> NoLoc]
    /\ ret = [s \in Sessions |-> NoRet]
    /\ week = 1
    /\ stripe = <<>>
    /\ change = <<>>
    /\ handled = [e \in {ManyEvents[i] : i \in 1..Len(ManyEvents)} |-> 0]
    /\ partner = NoPartner
    /\ cache = NoCache
    /\ now = 0

\* retries of the backlog, one after the other
NextBacklog ==
    \E s \in Notified :
        \/ RetrySteps(s)
        \/ WhFlush(s)
        \/ WhDispatch(s)
        \/ WhComplete(s)
        \/ WhFail(s)

SpecBacklog == InitBacklog /\ [][NextBacklog]_vars

\* ------------------------------------------- Completion & failure notifications
\* external confirmation ids (Donation.everyOrgId is unique, donation.py:28)
EveryOrgIds == {"eo1", "eo2"}

\* the requests the completion endpoint receives (schemas/jobs.py:15-19): a
\* donation id, or a batch id with a user id, or neither
CompletionRequests ==
    {<<d, NoId, None>> : d \in DonationIds \cup {NoId}} \cup {<<NoId, 1, "u1">>}

\* complete_donation lines 238-262: look the donation up by id, else by batch
\* and user among the PENDING/PROCESSING ones (LIMIT 1 without ORDER BY: any of
\* them); mark it COMPLETED in memory
CdSelect(s, donation_id, batch_id, user_id, every_org_id) ==
    /\ pc[s] = "idle"
    /\ LET v == Visible(s).donation
           found == IF donation_id # NoId
                    THEN {d \in DOMAIN v : d = donation_id}
                    ELSE IF batch_id # NoId /\ user_id # None
                    THEN {d \in DOMAIN v : /\ v[d].batchId = batch_id
                                           /\ v[d].userId = user_id
                                           /\ v[d].status \in {"PENDING", "PROCESSING"}}
                    ELSE {}
       IN IF found = {}
          THEN /\ ret' = [ret EXCEPT ![s] = Returned([success |-> FALSE,
                                                      reason |-> "Donation not found"])]
               /\ UNCHANGED <<pc, loc>>
          ELSE \E d \in found :
               /\ ret' = [ret EXCEPT ![s] = Running]
               /\ pc' = [pc EXCEPT ![s] = "cd_write"]
               /\ loc' = [loc EXCEPT ![s] =
                     [job |-> "complete_donation", donation_id |-> d,
                      donation |-> [v[d] EXCEPT !.status = "COMPLETED",
                                                !.everyOrgId = every_org_id,
                                                !.completedAt = "now"],
                      dirty |-> {"completedAt"}
                                \cup (IF v[d].status # "COMPLETED" THEN {"status"} ELSE {})
                                \cup (IF v[d].everyOrgId # every_org_id
                                      THEN {"everyOrgId"} ELSE {})]]
    /\ UNCHANGED <<db, tx, week, stripe, change, plaid, handled, partner, cache, now>>

\* the changed columns of the in-memory donation, as the autoflush writes them
CdDirtyCols(s) == [f \in loc[s].dirty |-> loc[s].donation[f]]

\* Donation.everyOrgId unique: another row already holds the confirmation id
EveryOrgIdTaken(s, d, every_org_id) ==
    \E e \in DOMAIN Visible(s).donation :
        e # d /\ Visible(s).donation[e].everyOrgId = every_org_id

\* the donations of batch b still PENDING or PROCESSING in the rows w (lines 274-279)
pending_count(w, b) ==
    Cardinality({d \in DOMAIN w : w[d].batchId = b /\ w[d].status \in {"PENDING", "PROCESSING"}})

\* lines 265-290: the autoflush UPDATE of the donation, the UPDATE of the linked
\* transaction, the count of the batch's open donations and, when none is left,
\* the UPDATE of the batch.  A duplicate everyOrgId fails the flush with
\* IntegrityError, which leaves the job (api/jobs.py:95-106 rolls back)
CdWrite(s) ==
    /\ pc[s] = "cd_write"
    /\ LET d == loc[s].donation_id
           obj == loc[s].donation
           t == obj.transactionId
           b == obj.batchId
           dw == PutRow(tx[s].donation, d, CdDirtyCols(s))
           after == ApplyWrites(db.donation, dw)
           closes == b # NoId /\ pending_count(after, b) = 0
       IN /\ ~LockedByOther(s, "donation", d)
          /\ IF "everyOrgId" \in loc[s].dirty /\ EveryOrgIdTaken(s, d, obj.everyOrgId)
             THEN /\ tx' = [tx EXCEPT ![s] = EmptyTx]
                  /\ ret' = [ret EXCEPT ![s] = Raised("IntegrityError")]
                  /\ pc' = [pc EXCEPT ![s] = "idle"]
                  /\ loc' = [loc EXCEPT ![s] = NoLoc]
             ELSE /\ t # NoId => ~LockedByOther(s, "txn", t)
                  /\ closes => ~LockedByOther(s, "batch", b)
                  /\ tx' = [tx EXCEPT
                        ![s].donation = dw,
                        ![s].txn = IF t # NoId /\ t \in DOMAIN Visible(s).txn
                                   THEN PutRow(@, t, [status |-> "DONATED"]) ELSE @,
                        ![s].batch = IF closes /\ b \in DOMAIN Visible(s).batch
                                     THEN PutRow(@, b, [status |-> "COMPLETED",
                                                        processedAt |-> "now"])
                                     ELSE @]
                  /\ pc' = [pc EXCEPT ![s] = "cd_commit"]
                  /\ UNCHANGED <<ret, loc>>
    /\ UNCHANGED <<db, week, stripe, change, plaid, handled, partner, cache, now>>

\* line 292: commit()
CdCommit(s) ==
    /\ pc[s] = "cd_commit"
    /\ db' = Committed(s)
    /\ tx' = [tx EXCEPT ![s] = EmptyTx]
    /\ ret' = [ret EXCEPT ![s] = Returned([success |-> TRUE,
                                           donationId |-> loc[s].donation_id])]
    /\ pc' = [pc EXCEPT ![s] = "idle"]
    /\ loc' = [loc EXCEPT ![s] = NoLoc]
    /\ UNCHANGED <<week, stripe, change, plaid, handled, partner, cache, now>>

\* failure reasons a payment_failed notification carries (None when absent)
FailureReasons == {None, "insufficient_funds"}

\* handle_ach_payment_failed lines 606-625: SELECT the batch of the payment
\* intent with its donations; mark the batch and every donation FAILED in
\* memory.  The processor sends the notification for a debit it could not settle
HapfSelect(s, pi, failure_reason) ==
    /\ s \in Notified
    /\ pc[s] = "idle"
    /\ pi \in 1..Len(stripe)
    /\ stripe[pi].status # "succeeded"
    /\ stripe[pi].settled # "succeeded"
    /\ stripe' = [stripe EXCEPT ![pi].settled = "failed"]
    /\ LET v == Visible(s)
           found == {b \in DOMAIN v.batch : v.batch[b].stripePaymentIntentId = pi}
       IN IF found = {}
          THEN /\ ret' = [ret EXCEPT ![s] = Returned([success |-> FALSE,
                                                      reason |-> "Batch not found"])]
               /\ UNCHANGED <<pc, loc>>
          ELSE LET b == CHOOSE x \in found : TRUE
                   ds == {d \in DOMAIN v.donation : v.donation[d].batchId = b}
                   msg == IF failure_reason # None THEN failure_reason
                          ELSE "ACH payment failed"
               IN /\ ret' = [ret EXCEPT ![s] = Running]
                  /\ pc' = [pc EXCEPT ![s] = "hapf_commit"]
                  /\ loc' = [loc EXCEPT ![s] =
                        [job |-> "handle_ach_payment_failed", batch_id |-> b,
                         failure_reason |-> failure_reason,
                         batch |-> [v.batch[b] EXCEPT !.status = "FAILED",
                                                      !.stripePaymentStatus = "failed"],
                         dirty |-> {f \in {"status", "stripePaymentStatus"} :
                                      v.batch[b][f] # (IF f = "status" THEN "FAILED"
                                                       ELSE "failed")},
                         donations |-> [d \in ds |->
                                          [v.donation[d] EXCEPT !.status = "FAILED",
                                                                !.errorMessage = msg]]]]
    /\ UNCHANGED <<db, tx, week, change, plaid, handled, partner, cache, now>>

\* the columns handle_ach_payment_failed assigns on the loaded donations
HapfWritesNoReason(s) == [d \in DOMAIN loc[s].donations |-> [status |-> "FAILED"]]

HapfWrites(s) ==
    [d \in DOMAIN loc[s].donations |->
        [status |-> "FAILED", errorMessage |-> loc[s].donations[d].errorMessage]]

\* line 627: commit() flushes the batch and its donations
HapfCommit(s) ==
    /\ pc[s] = "hapf_commit"
    /\ loc[s].dirty # {} => ~LockedByOther(s, "batch", loc[s].batch_id)
    /\ \A d \in DOMAIN loc[s].donations : ~LockedByOther(s, "donation", d)
    /\ db' = [Committed(s) EXCEPT
                !.batch = IF loc[s].dirty = {} THEN @
                          ELSE ApplyWrites(@, loc[s].batch_id :> DirtyCols(s)),
                !.donation = ApplyWrites(@, HapfWrites(s))]
    /\ tx' = [tx EXCEPT ![s] = EmptyTx]
    /\ ret' = [ret EXCEPT ![s] = Returned([success |-> TRUE, status |-> "failed"])]
    /\ pc' = [pc EXCEPT ![s] = "idle"]
    /\ loc' = [loc EXCEPT ![s] = NoLoc]
    /\ UNCHANGED <<week, stripe, change, plaid, handled, partner, cache, now>>

\* the charge, the processor's notifications of either outcome and the external
\* completion confirmations, one unit of work after the other
NextFulfil ==
    \/ NextSettle
    \/ \E s \in Notified :
        \/ \E r \in CompletionRequests, e \in EveryOrgIds : CdSelect(s, r[1], r[2], r[3], e)
        \/ CdWrite(s)
        \/ CdCommit(s)
        \/ \E pi \in 1..MaxIntents, f \in FailureReasons : HapfSelect(s, pi, f)
        \/ HapfCommit(s)

SpecFulfil == InitPay /\ [][NextFulfil]_vars

\* ------------------------------------------------------- The $1.00 floor
\* donation amounts as the Matching Engine computes them (0.10, 0.20, 0.70)
FloorAmounts == {10, 20, 70}

\* user u1, with automatic donation on or off, and MaxGroup PENDING donations
\* without a batch, each of a drawn amount
InitFloor ==
    /\ \E auto \in BOOLEAN, amt \in [1..MaxGroup -> FloorAmounts] :
        db = [batch |-> <<>>,
              donation |-> [d \in 1..MaxGroup |-> NewDonationRow("u1", d, "c1", amt[d])],
              txn |-> [d \in 1..MaxGroup |-> MatchedTxnRow("u1", d, amt[d])],
              user |-> [u \in Users |-> UserRow(auto)],
              event |-> <<>>, item |-> <<>>, account |-> <<>>,
              charity |-> [c \in {"c1"} |-> [ein |-> "ein1"]]]
    /\ tx = [s \in Sessions |-> EmptyTx]
    /\ pc = [s \in Sessions |-> "idle"]
    /\ loc = [s \in Sessions |-> NoLoc]
    /\ ret = [s \in Sessions |-> NoRet]
    /\ week = 1
    /\ stripe = <<>>
    /\ change = [d \in 1..MaxGroup |-> 0]
    /\ plaid = <<>>
    /\ handled = <<>>
    /\ partner = NoPartner
    /\ cache = NoCache
    /\ now = 0

\* create_weekly_batches runs, interleaved over the sessions
NextFloor ==
    \E s \in Sessions :
        \/ CwbSelectPending(s)
        \/ CwbSelectBatch(s)
        \/ CwbFlush(s)
        \/ CwbFlushConflict(s)
        \/ CwbAttach(s)
        \/ CwbCommit(s)

SpecFloor == InitFloor /\ [][NextFloor]_vars

\* ---------------------------------------------------- Legacy batch processing
\* process_donations.py:178: the statuses process_donation_batch goes on with
LegacyStatusesWide == {"PENDING", "READY", "PROCESSING"}

LegacyStatuses == {"PENDING", "READY"}

\* lines 185-211: the donations grouped by charitySlug (the donation's copy of
\* Charity.everyOrgSlug, unique per charity, held here as charityId) with the
\* amounts added up, and one generate_donation_url(slug, amount) per group
DonationUrls(donations) ==
    {[charitySlug |-> c,
      amount |-> SumOver({d \in DOMAIN donations : donations[d].charityId = c},
                         [d \in DOMAIN donations |-> donations[d].amount]),
      url |-> <<"https://www.every.org", c,
                SumOver({d \in DOMAIN donations : donations[d].charityId = c},
                        [d \in DOMAIN donations |-> donations[d].amount])>>,
      donationIds |-> {d \in DOMAIN donations : donations[d].charityId = c}] :
        c \in {donations[d].charityId : d \in DOMAIN donations}}

\* lines 165-179: SELECT the batch with its donations; ValueError when there is
\* none, skipped unless it is PENDING or READY
PdbSelect(s, b) ==
    /\ pc[s] = "idle"
    /\ LET v == Visible(s)
       IN IF b \notin DOMAIN v.batch
          THEN /\ ret' = [ret EXCEPT ![s] = Raised("ValueError")]
               /\ UNCHANGED <<pc, loc>>
          ELSE IF v.batch[b].status \notin LegacyStatuses
          THEN /\ ret' = [ret EXCEPT ![s] = Skipped(<<"Batch status is", v.batch[b].status>>)]
               /\ UNCHANGED <<pc, loc>>
          ELSE /\ loc' = [loc EXCEPT ![s] =
                            [job |-> "process_donation_batch", batch_id |-> b,
                             batch |-> v.batch[b],
                             donations |-> [d \in {x \in DOMAIN v.donation :
                                                      v.donation[x].batchId = b}
                                               |-> v.donation[d]]]]
               /\ pc' = [pc EXCEPT ![s] = "pdb_flush"]
               /\ ret' = [ret EXCEPT ![s] = Running]
    /\ UNCHANGED <<db, tx, week, stripe, change, plaid, handled, partner, cache, now>>

\* lines 181-183: status PROCESSING, flushed
PdbFlush(s) ==
    /\ pc[s] = "pdb_flush"
    /\ ~LockedByOther(s, "batch", loc[s].batch_id)
    /\ tx' = [tx EXCEPT ![s].batch = PutRow(@, loc[s].batch_id, [status |-> "PROCESSING"])]
    /\ pc' = [pc EXCEPT ![s] = "pdb_commit"]
    /\ UNCHANGED <<db, loc, ret, week, stripe, change, plaid, handled, partner, cache, now>>

\* lines 185-224: the URLs of the groups, status READY, commit, and the result
PdbCommit(s) ==
    /\ pc[s] = "pdb_commit"
    /\ db' = [Committed(s) EXCEPT !.batch =
                ApplyWrites(@, loc[s].batch_id :> [status |-> "READY"])]
    /\ tx' = [tx EXCEPT ![s] = EmptyTx]
    /\ ret' = [ret EXCEPT ![s] = Returned(
                    [batchId |-> loc[s].batch_id,
                     userId |-> loc[s].batch.userId,
                     totalAmount |-> loc[s].batch.totalAmount,
                     charityCount |-> Cardinality(DonationUrls(loc[s].donations)),
                     donationUrls |-> DonationUrls(loc[s].donations)])]
    /\ pc' = [pc EXCEPT ![s] = "idle"]
    /\ loc' = [loc EXCEPT ![s] = NoLoc]
    /\ UNCHANGED <<week, stripe, change, plaid, handled, partner, cache, now>>

\* one batch of user u1 in any status, holding every donation, each for one of
\* two charities
InitLegacy ==
    /\ \E ch \in [DonationIds -> {"c1", "c2"}],
          status \in {"PENDING", "READY", "PROCESSING", "COMPLETED", "FAILED"} :
       LET amt == [d \in DonationIds |-> IF d % 2 = 1 THEN 60 ELSE 100] IN
        db = [batch |-> (1 :> [NewBatchRow("u1", 1, SumOver(DonationIds, amt))
                                  EXCEPT !.status = status]),
              donation |-> [d \in DonationIds |->
                              [NewDonationRow("u1", d, ch[d], amt[d]) EXCEPT !.batchId = 1]],
              txn |-> [d \in DonationIds |->
                              [MatchedTxnRow("u1", d, amt[d]) EXCEPT !.status = "BATCHED"]],
              user |-> [u \in Users |-> UserRow(u = "u1")],
              event |-> <<>>, item |-> <<>>,
              account |-> (1 :> [userId |-> "u1", achEnabled |-> TRUE,
                                 stripePaymentMethodId |-> "pm_1"]),
              charity |-> ("c1" :> [ein |-> "ein1"]) @@ ("c2" :> [ein |-> None])]
    /\ tx = [s \in Sessions |-> EmptyTx]
    /\ pc = [s \in Sessions |-> "idle"]
    /\ loc = [s \in Sessions |-> NoLoc]
    /\ ret = [s \in Sessions |-> NoRet]
    /\ week = 1
    /\ stripe = <<>>
    /\ change = [d \in DonationIds |-> 0]
    /\ plaid = <<>>
    /\ handled = <<>>
    /\ partner = NoPartner
    /\ cache = NoCache
    /\ now = 0

\* process_donation_batch and process_auto_donation_batch invocations,
\* interleaved over the sessions
NextLegacy ==
    \/ NextCharge
    \/ \E s \in Sessions :
        \/ \E b \in BatchIds : PdbSelect(s, b)
        \/ PdbFlush(s)
        \/ PdbCommit(s)

SpecLegacy == InitLegacy /\ [][NextLegacy]_vars

\* ------------------------------------------------------- Grant distribution
\* distribute_grants.py: one consolidated disbursement request per batch to the
\* Every.org Partner API.  The batch columns grantStatus, grantError, grantedAt
\* and everyOrgDisbursementId are treated as columns of DonationBatch

\* the grant columns of a batch and of a donation, as a migration leaves them
BatchGrantCols(status) ==
    [grantStatus |-> status, grantError |-> None,
     everyOrgDisbursementId |-> NoId, grantedAt |-> None]

DonationGrantCols(slug, cause) ==
    [charitySlug |-> slug, designatedCauseId |-> cause, grantStatus |-> None]

\* lines 193-197: the grant statuses distribute_batch_grants does not act on
SettledGrantStatusesNarrow == {"completed"}

SettledGrantStatuses == {"completed", "processing"}

\* lines 133-157: the default charity of a cause, else any active charity of it
DefaultCharitySlug(v, cause) ==
    LET default == {c \in DOMAIN v.charity :
                       v.charity[c].causeId = cause /\ v.charity[c].isDefault
                       /\ v.charity[c].isActive}
        active == {c \in DOMAIN v.charity :
                       v.charity[c].causeId = cause /\ v.charity[c].isActive}
    IN IF default # {} THEN v.charity[CHOOSE c \in default : TRUE].everyOrgSlug
       ELSE IF active # {} THEN v.charity[CHOOSE c \in active : TRUE].everyOrgSlug
       ELSE None

\* lines 213-224: the charity a donation is granted to; "" and NULL are falsy
GrantSlug(v, row) ==
    IF row.charitySlug \notin {"", None} THEN row.charitySlug
    ELSE IF row.designatedCauseId # None THEN DefaultCharitySlug(v, row.designatedCauseId)
    ELSE None

\* lines 208-269: one grant per resolved charity, amount in cents
GrantsByCharity(v, ids) ==
    LET resolved == {d \in ids : GrantSlug(v, v.donation[d]) \notin {"", None}}
    IN {[nonprofit_id |-> slug,
         amount |-> SumOver({d \in resolved : GrantSlug(v, v.donation[d]) = slug},
                            [d \in DOMAIN v.donation |-> ToCents(v.donation[d].amount)]),
         donation_ids |-> {d \in resolved : GrantSlug(v, v.donation[d]) = slug}] :
        slug \in {GrantSlug(v, v.donation[d]) : d \in resolved}}

\* distribute_batch_grants returning or raising: back to its caller
DbgReturn(s, outcome) ==
    IF loc[s].job = "retry_failed_disbursements"
    THEN /\ pc' = [pc EXCEPT ![s] = "rfd_loop"]      \* lines 345-347
         /\ loc' = [loc EXCEPT ![s].failed_batches = Tail(@),
                               ![s].results = Append(@, [batchId |-> loc[s].batch_id,
                                                         outcome |-> outcome])]
         /\ UNCHANGED ret
    ELSE /\ pc' = [pc EXCEPT ![s] = "idle"]
         /\ ret' = [ret EXCEPT ![s] = outcome]
         /\ loc' = [loc EXCEPT ![s] = NoLoc]

\* distribute_batch_grants(db, batch_id), called on its own
JobDistribute(s, b) ==
    /\ pc[s] = "idle"
    /\ pc' = [pc EXCEPT ![s] = "dbg_select"]
    /\ loc' = [loc EXCEPT ![s] = [job |-> "distribute_batch_grants", batch_id |-> b,
                                  donations |-> {}, grants |-> {}, error |-> None]]
    /\ ret' = [ret EXCEPT ![s] = Running]
    /\ UNCHANGED <<db, tx, week, stripe, change, plaid, handled, partner, cache, now>>

\* lines 178-255 up to the first write: SELECT the batch and its donations,
\* the skip conditions, the grouping by charity
DbgSelect(s) ==
    /\ pc[s] = "dbg_select"
    /\ LET v == Visible(s)
           b == loc[s].batch_id
           ids == {d \in DOMAIN v.donation : v.donation[d].batchId = b}
           grants == GrantsByCharity(v, ids)
       IN IF b \notin DOMAIN v.batch
          THEN DbgReturn(s, Raised("ValueError"))
          ELSE IF v.batch[b].grantStatus \in SettledGrantStatuses
          THEN DbgReturn(s, Skipped(IF v.batch[b].grantStatus = "completed"
                                    THEN <<"Already distributed">>
                                    ELSE <<"Already processing">>))
          ELSE IF ~partner.configured
          THEN DbgReturn(s, Skipped(<<"Partner API not configured">>))
          ELSE /\ loc' = [loc EXCEPT ![s].donations = ids, ![s].grants = grants]
               /\ pc' = [pc EXCEPT ![s] = IF grants = {} THEN "dbg_none" ELSE "dbg_flush"]
               /\ UNCHANGED ret
    /\ UNCHANGED <<db, tx, week, stripe, change, plaid, handled, partner, cache, now>>

\* lines 250-255: nothing to grant; the batch is grant-completed
DbgNone(s) ==
    /\ pc[s] = "dbg_none"
    /\ ~LockedByOther(s, "batch", loc[s].batch_id)
    /\ db' = [Committed(s) EXCEPT !.batch =
                ApplyWrites(@, loc[s].batch_id :> [grantStatus |-> "completed",
                                                   grantedAt |-> "now"])]
    /\ tx' = [tx EXCEPT ![s] = EmptyTx]
    /\ DbgReturn(s, Skipped(<<"No grants to distribute">>))
    /\ UNCHANGED <<week, stripe, change, plaid, handled, partner, cache, now>>

\* lines 272-274: grantStatus = "processing", flushed and not committed
DbgFlush(s) ==
    /\ pc[s] = "dbg_flush"
    /\ ~LockedByOther(s, "batch", loc[s].batch_id)
    /\ tx' = [tx EXCEPT ![s].batch = PutRow(@, loc[s].batch_id, [grantStatus |-> "processing"])]
    /\ pc' = [pc EXCEPT ![s] = "dbg_request"]
    /\ UNCHANGED <<db, loc, ret, week, stripe, change, plaid, handled, partner, cache, now>>

\* line 278 and lines 49-118: the request reaches the provider, which accepts
\* it and answers an id, or answers an error status
DbgRequest(s) ==
    /\ pc[s] = "dbg_request"
    /\ Len(partner.requests) < MaxRequests
    /\ \E ok \in BOOLEAN :
        /\ partner' = [partner EXCEPT !.requests =
                          Append(@, [batch_id |-> loc[s].batch_id, ok |-> ok,
                                     disbursements |-> {[nonprofit_id |-> g.nonprofit_id,
                                                         amount |-> g.amount] :
                                                        g \in loc[s].grants}])]
        /\ IF ok
           THEN /\ pc' = [pc EXCEPT ![s] = "dbg_commit"]
                /\ UNCHANGED loc
           ELSE /\ pc' = [pc EXCEPT ![s] = "dbg_except"]
                /\ loc' = [loc EXCEPT ![s].error = "Every.org API error"]
    /\ UNCHANGED <<db, tx, ret, week, stripe, change, plaid, handled, cache, now>>

\* lines 281-304: record the disbursement id, mark the donations, commit
DbgCommit(s) ==
    /\ pc[s] = "dbg_commit"
    /\ \A d \in loc[s].donations : ~LockedByOther(s, "donation", d)
    /\ LET id == Len(partner.requests)
           w == [tx[s] EXCEPT
                    !.batch = PutRow(@, loc[s].batch_id, [everyOrgDisbursementId |-> id]),
                    !.donation = [d \in DOMAIN @ \cup loc[s].donations |->
                                     IF d \in loc[s].donations
                                     THEN PutRow(@, d, [grantStatus |-> "pending"])[d]
                                     ELSE @[d]]]
       IN /\ db' = [t \in Tables |-> ApplyWrites(db[t], w[t])]
          /\ DbgReturn(s, Returned([batchId |-> loc[s].batch_id, disbursementId |-> id,
                                    grantsQueued |-> Cardinality(loc[s].grants),
                                    totalAmount |-> SumOver(loc[s].grants,
                                        [g \in loc[s].grants |-> g.amount])]))
    /\ tx' = [tx EXCEPT ![s] = EmptyTx]
    /\ UNCHANGED <<week, stripe, change, plaid, handled, partner, cache, now>>

FailedGrantColsSilent(error) == [grantStatus |-> "failed"]

\* lines 308-309: what the except branch writes to the batch
FailedGrantCols(error) == [grantStatus |-> "failed", grantError |-> error]

\* lines 306-317: the batch is grant-failed, committed, and the error re-raised
DbgExcept(s) ==
    /\ pc[s] = "dbg_except"
    /\ db' = [Committed(s) EXCEPT !.batch =
                ApplyWrites(@, loc[s].batch_id :> FailedGrantCols(loc[s].error))]
    /\ tx' = [tx EXCEPT ![s] = EmptyTx]
    /\ DbgReturn(s, Raised(loc[s].error))
    /\ UNCHANGED <<week, stripe, change, plaid, handled, partner, cache, now>>

\* the ids of a set in ascending order
RECURSIVE InIdOrder(_)
InIdOrder(ids) ==
    IF ids = {} THEN <<>>
    ELSE LET b == CHOOSE x \in ids : \A y \in ids : x <= y
         IN <<b>> \o InIdOrder(ids \ {b})

\* lines 326-334: SELECT the COMPLETED batches whose grant failed
RfdSelect(s) ==
    /\ pc[s] = "idle"
    /\ LET v == Visible(s).batch
           failed == {b \in DOMAIN v : v[b].grantStatus = "failed" /\ v[b].status = "COMPLETED"}
       IN loc' = [loc EXCEPT ![s] = [job |-> "retry_failed_disbursements",
                                     failed_batches |-> InIdOrder(failed),
                                     retried |-> Cardinality(failed), results |-> <<>>,
                                     batch_id |-> NoId, donations |-> {}, grants |-> {},
                                     error |-> None]]
    /\ pc' = [pc EXCEPT ![s] = "rfd_loop"]
    /\ ret' = [ret EXCEPT ![s] = Running]
    /\ UNCHANGED <<db, tx, week, stripe, change, plaid, handled, partner, cache, now>>

\* lines 337-344: reset the grant columns of the next batch, commit, and call
\* distribute_batch_grants on it
RfdReset(s) ==
    /\ pc[s] = "rfd_loop"
    /\ loc[s].failed_batches # <<>>
    /\ LET b == Head(loc[s].failed_batches)
       IN /\ ~LockedByOther(s, "batch", b)
          /\ db' = [Committed(s) EXCEPT !.batch =
                      ApplyWrites(@, b :> [grantStatus |-> None, grantError |-> None,
                                           everyOrgDisbursementId |-> NoId])]
          /\ loc' = [loc EXCEPT ![s].batch_id = b, ![s].donations = {}, ![s].grants = {},
                                ![s].error = None]
    /\ tx' = [tx EXCEPT ![s] = EmptyTx]
    /\ pc' = [pc EXCEPT ![s] = "dbg_select"]
    /\ UNCHANGED <<ret, week, stripe, change, plaid, handled, partner, cache, now>>

\* lines 349-352
RfdReturn(s) ==
    /\ pc[s] = "rfd_loop"
    /\ loc[s].failed_batches = <<>>
    /\ ret' = [ret EXCEPT ![s] = Returned([retried |-> loc[s].retried,
                                           results |-> loc[s].results])]
    /\ pc' = [pc EXCEPT ![s] = "idle"]
    /\ loc' = [loc EXCEPT ![s] = NoLoc]
    /\ UNCHANGED <<db, tx, week, stripe, change, plaid, handled, partner, cache, now>>

\* batch 1 of u1 with its two donations and batch 2 of u2 without donations;
\* the charge of batch 1 has cleared; cause1 has one charity, active or not
GrantSlugs == {"", "org-a", "org-b"}

InitGrants ==
    /\ \E slug \in [DonationIds -> GrantSlugs], active \in BOOLEAN,
          g1 \in {None, "failed", "processing", "completed"},
          g2 \in {None, "failed"}, st2 \in {"COMPLETED", "FAILED"} :
        db = [batch |-> (1 :> Merge([NewBatchRow("u1", 1, 160) EXCEPT !.status = "COMPLETED"],
                                    BatchGrantCols(g1)))
                        @@ (2 :> Merge([NewBatchRow("u2", 1, 0) EXCEPT !.status = st2],
                                       BatchGrantCols(g2))),
              donation |-> [d \in DonationIds |->
                              Merge([NewDonationRow("u1", d, "c1", IF d = 1 THEN 58 ELSE 102)
                                        EXCEPT !.batchId = 1, !.status = "COMPLETED"],
                                    DonationGrantCols(slug[d], IF d = 1 THEN "cause1" ELSE None))],
              txn |-> <<>>,
              user |-> [u \in Users |-> UserRow(TRUE)],
              event |-> <<>>, item |-> <<>>, account |-> <<>>,
              charity |-> ("c1" :> [ein |-> "ein1", causeId |-> "cause1", isDefault |-> FALSE,
                                    isActive |-> active, everyOrgSlug |-> "org-a"])]
    /\ \E configured \in BOOLEAN : partner = [configured |-> configured, requests |-> <<>>]
    /\ cache = NoCache
    /\ now = 0
    /\ tx = [s \in Sessions |-> EmptyTx]
    /\ pc = [s \in Sessions |-> "idle"]
    /\ loc = [s \in Sessions |-> NoLoc]
    /\ ret = [s \in Sessions |-> NoRet]
    /\ week = 1
    /\ stripe = <<>>
    /\ change = <<>>
    /\ plaid = <<>>
    /\ handled = <<>>

\* the steps of distribute_batch_grants and retry_failed_disbursements
GrantSteps(s) ==
    \/ \E b \in BatchIds : JobDistribute(s, b)
    \/ DbgSelect(s)
    \/ DbgNone(s)
    \/ DbgFlush(s)
    \/ DbgRequest(s)
    \/ DbgCommit(s)
    \/ DbgExcept(s)
    \/ RfdSelect(s)
    \/ RfdReset(s)
    \/ RfdReturn(s)

\* calls made one after the other
NextGrants == \E s \in Notified : GrantSteps(s)

SpecGrants == InitGrants /\ [][NextGrants]_vars

\* ------------------------------------------------------------ Retry Executor
\* utils/retry.py: with_retry(func, max_attempts), the other parameters at
\* their defaults.  The k-th invocation of func returns <<"value", k>> or
\* raises <<"error", k>>

\* the values of max_attempts a caller passes
AttemptChoices == {0, 1, 2, 3, MaxAttempts}

\* line 46: exponential_base ** (attempt - 1) on floats raises OverflowError
\* once the result leaves the double range; for the default base 2.0 that is
\* from the exponent 1024 on
PowOverflows(exponent) == exponent >= 1024

\* lines 15-17: the defaults of base_delay and max_delay, in milliseconds, and
\* of exponential_base
base_delay == 1000
max_delay == 30000
exponential_base == 2

\* line 47: random.random() * 2 - 1 lies in [-1, 1); the draws, in thousandths
JitterDraws == {-1000, -500, 0, 500, 999}

\* line 46: min(base_delay * exponential_base ** (attempt - 1), max_delay); the
\* product passes max_delay long before it leaves the integer range
Backoff(attempt) ==
    IF attempt - 1 >= 16 THEN max_delay
    ELSE IF base_delay * exponential_base ^ (attempt - 1) < max_delay
    THEN base_delay * exponential_base ^ (attempt - 1)
    ELSE max_delay

\* lines 47-48: delay += delay * 0.1 * (random.random() * 2 - 1)
Jittered(delay, draw) == delay + (delay * draw) \div 10000

\* lines 29-31 and 57-60: enter the loop, or fall through an empty range
WithRetry(s, max_attempts) ==
    /\ pc[s] = "idle"
    /\ IF max_attempts < 1
       THEN /\ ret' = [ret EXCEPT ![s] = Raised("RuntimeError")]
            /\ UNCHANGED <<pc, loc>>
       ELSE /\ ret' = [ret EXCEPT ![s] = Running]
            /\ pc' = [pc EXCEPT ![s] = "wr_call"]
            /\ loc' = [loc EXCEPT ![s] = [job |-> "with_retry", max_attempts |-> max_attempts,
                                          attempt |-> 1, invoked |-> 0,
                                          last_exception |-> None, delay |-> 0]]
    /\ UNCHANGED <<db, tx, week, stripe, change, plaid, handled, partner, cache, now>>

\* lines 32-53: one invocation of func; on an exception, the last attempt
\* re-raises it, any other attempt computes the delay
WrCall(s) ==
    /\ pc[s] = "wr_call"
    /\ LET l == loc[s]
           k == l.invoked + 1
       IN \E ok \in BOOLEAN :
            IF ok
            THEN /\ ret' = [ret EXCEPT ![s] = Returned(<<"value", k>>)]
                 /\ pc' = [pc EXCEPT ![s] = "idle"]
                 /\ loc' = [loc EXCEPT ![s] = NoLoc]
            ELSE IF l.attempt = l.max_attempts
            THEN /\ ret' = [ret EXCEPT ![s] = Raised(<<"error", k>>)]
                 /\ pc' = [pc EXCEPT ![s] = "idle"]
                 /\ loc' = [loc EXCEPT ![s] = NoLoc]
            ELSE IF PowOverflows(l.attempt - 1)
            THEN /\ ret' = [ret EXCEPT ![s] = Raised(<<"OverflowError", k>>)]
                 /\ pc' = [pc EXCEPT ![s] = "idle"]
                 /\ loc' = [loc EXCEPT ![s] = NoLoc]
            ELSE /\ \E draw \in JitterDraws :
                    loc' = [loc EXCEPT ![s].invoked = k,
                                       ![s].last_exception = <<"error", k>>,
                                       ![s].delay = Jittered(Backoff(l.attempt), draw)]
                 /\ pc' = [pc EXCEPT ![s] = "wr_sleep"]
                 /\ UNCHANGED ret
    /\ UNCHANGED <<db, tx, week, stripe, change, plaid, handled, partner, cache, now>>

\* line 55 and the next turn of the loop
WrSleep(s) ==
    /\ pc[s] = "wr_sleep"
    /\ loc' = [loc EXCEPT ![s].attempt = @ + 1, ![s].delay = 0]
    /\ pc' = [pc EXCEPT ![s] = "wr_call"]
    /\ UNCHANGED <<db, tx, ret, week, stripe, change, plaid, handled, partner, cache, now>>

InitBackoff ==
    /\ db = [t \in Tables |-> <<>>]
    /\ tx = [s \in Sessions |-> EmptyTx]
    /\ pc = [s \in Sessions |-> "idle"]
    /\ loc = [s \in Sessions |-> NoLoc]
    /\ ret = [s \in Sessions |-> NoRet]
    /\ week = 1
    /\ stripe = <<>>
    /\ change = <<>>
    /\ plaid = <<>>
    /\ handled = <<>>
    /\ partner = NoPartner
    /\ cache = NoCache
    /\ now = 0

NextBackoff ==
    \E s \in Notified :
        \/ \E max_attempts \in AttemptChoices : WithRetry(s, max_attempts)
        \/ WrCall(s)
        \/ WrSleep(s)

SpecBackoff == InitBackoff /\ [][NextBackoff]_vars

\* -------------------------------------------------- Aggregation after a charge
\* user u1 with an account enabled for ACH debits and no donation yet
InitRebatch ==
    /\ db = [batch |-> <<>>, donation |-> <<>>, txn |-> <<>>,
             user |-> [u \in Users |-> UserRow(u = "u1")],
             event |-> <<>>, item |-> <<>>,
             account |-> (1 :> [userId |-> "u1", achEnabled |-> TRUE,
                                stripePaymentMethodId |-> "pm_1"]),
             charity |-> [c \in {"c1"} |-> [ein |-> "ein1"]]]
    /\ tx = [s \in Sessions |-> EmptyTx]
    /\ pc = [s \in Sessions |-> "idle"]
    /\ loc = [s \in Sessions |-> NoLoc]
    /\ ret = [s \in Sessions |-> NoRet]
    /\ week = 1
    /\ stripe = <<>>
    /\ change = [d \in DonationIds |-> 0]
    /\ plaid = <<>>
    /\ handled = <<>>
    /\ partner = NoPartner
    /\ cache = NoCache
    /\ now = 0

\* matches, weekly aggregation, the charge, its settlement notifications and
\* the distribution, one unit of work after the other
NextRebatch ==
    \/ AdvanceWeek
    \/ AllIdle /\ \E amt \in Amounts : MatchCommitted("u1", amt)
    \/ NextSettle
    \/ \E s \in Notified :
        \/ CwbSelectPending(s)
        \/ CwbSelectBatch(s)
        \/ CwbFlush(s)
        \/ CwbAttach(s)
        \/ CwbCommit(s)

SpecRebatch == InitRebatch /\ [][NextRebatch]_vars

\* the same within one week, with the completion confirmations of the
\* disbursement provider
NextReopen ==
    \/ AllIdle /\ MatchCommitted("u1", 100)
    \/ NextSettle
    \/ \E s \in Notified :
        \/ CwbSelectPending(s)
        \/ CwbSelectBatch(s)
        \/ CwbFlush(s)
        \/ CwbAttach(s)
        \/ CwbCommit(s)
        \/ \E r \in CompletionRequests, e \in EveryOrgIds : CdSelect(s, r[1], r[2], r[3], e)
        \/ CdWrite(s)
        \/ CdCommit(s)

SpecReopen == InitRebatch /\ [][NextReopen]_vars

\* ------------------------------------------------------------ Mapping cache
CACHE_TTL_SECONDS == 300

\* the seconds at which the wall clock is read
Instants == {0, 1, 299, 300, 301, 599, 600, 601}

\* BusinessMapping rows the administrators edit
MappingRows ==
    [m1 |-> [merchantPattern |-> "STARBUCKS", causeId |-> "k1", isActive |-> TRUE],
     m2 |-> [merchantPattern |-> "SHELL", causeId |-> "k3", isActive |-> FALSE]]

MappingEdits == {[isActive |-> TRUE], [isActive |-> FALSE], [causeId |-> "k2"]}

\* select(BusinessMapping).where(BusinessMapping.isActive == True)
ActiveMappings(d) ==
    [m \in {i \in DOMAIN d.mapping : d.mapping[i].isActive} |-> d.mapping[m]]

CacheFreshInclusive(c, t) == c.mappings_cache # <<>> /\ t <= c.cache_expires_at

\* _mappings_cache is not None and now < _cache_expires_at
CacheFresh(c, t) == c.mappings_cache # <<>> /\ t < c.cache_expires_at

\* get_business_mappings up to its return from the cache or its await of the query
GetBusinessMappings(s) ==
    /\ Idle(s)
    /\ loc' = [loc EXCEPT ![s] = [job |-> "get_business_mappings", now |-> now]]
    /\ IF CacheFresh(cache, now)
       THEN /\ ret' = [ret EXCEPT ![s] = Returned(cache.mappings_cache[1])]
            /\ UNCHANGED pc
       ELSE /\ ret' = [ret EXCEPT ![s] = Running]
            /\ pc' = [pc EXCEPT ![s] = "gbm_execute"]
    /\ UNCHANGED <<db, tx, week, stripe, change, plaid, handled, partner, cache, now>>

\* the database evaluates the query of the suspended lookup
GbmExecute(s) ==
    /\ pc[s] = "gbm_execute"
    /\ loc' = [loc EXCEPT ![s] = Merge(@, [mappings |-> ActiveMappings(db)])]
    /\ pc' = [pc EXCEPT ![s] = "gbm_store"]
    /\ UNCHANGED <<db, tx, ret, week, stripe, change, plaid, handled, partner, cache, now>>

\* the lookup resumes: it fills the cache and returns what it read
GbmStore(s) ==
    /\ pc[s] = "gbm_store"
    /\ cache' = [mappings_cache |-> <<loc[s].mappings>>,
                 cache_expires_at |-> loc[s].now + CACHE_TTL_SECONDS]
    /\ ret' = [ret EXCEPT ![s] = Returned(loc[s].mappings)]
    /\ pc' = [pc EXCEPT ![s] = "idle"]
    /\ UNCHANGED <<db, tx, loc, week, stripe, change, plaid, handled, partner, now>>

invalidate_mappings_cache ==
    /\ cache' = NoCache
    /\ UNCHANGED <<db, tx, pc, loc, ret, week, stripe, change, plaid, handled, partner, now>>

\* an administrator commits a change of a BusinessMapping row
EditMappings(m, cols) ==
    /\ db.mapping[m] # Merge(db.mapping[m], cols)
    /\ db' = [db EXCEPT !.mapping[m] = Merge(@, cols)]
    /\ UNCHANGED <<tx, pc, loc, ret, week, stripe, change, plaid, handled, partner, cache, now>>

\* an administrator commits a change and then invalidates the cache
EditAndInvalidate(m, cols) ==
    /\ db.mapping[m] # Merge(db.mapping[m], cols)
    /\ db' = [db EXCEPT !.mapping[m] = Merge(@, cols)]
    /\ cache' = NoCache
    /\ UNCHANGED <<tx, pc, loc, ret, week, stripe, change, plaid, handled, partner, now>>

\* time passes
Tick(t) ==
    /\ t > now
    /\ now' = t
    /\ UNCHANGED <<db, tx, pc, loc, ret, week, stripe, change, plaid, handled, partner, cache>>

InitCache ==
    /\ db = Merge([t \in Tables |-> <<>>], [mapping |-> MappingRows])
    /\ tx = [s \in Sessions |-> EmptyTx]
    /\ pc = [s \in Sessions |-> "idle"]
    /\ loc = [s \in Sessions |-> NoLoc]
    /\ ret = [s \in Sessions |-> NoRet]
    /\ week = 1
    /\ stripe = <<>>
    /\ change = <<>>
    /\ plaid = <<>>
    /\ handled = <<>>
    /\ partner = NoPartner
    /\ cache = NoCache
    /\ now = 0

\* one lookup at a time; edits and invalidations between lookups
NextCache ==
    \/ \E s \in Notified : GetBusinessMappings(s) \/ GbmExecute(s) \/ GbmStore(s)
    \/ AllIdle /\ invalidate_mappings_cache
    \/ \E m \in DOMAIN MappingRows : \E cols \in MappingEdits : AllIdle /\ EditMappings(m, cols)
    \/ \E t \in Instants : Tick(t)

SpecCache == InitCache /\ [][NextCache]_vars

\* lookups of concurrent tasks; every edit is followed by an invalidation
NextReload ==
    \/ \E s \in Sessions : GetBusinessMappings(s) \/ GbmExecute(s) \/ GbmStore(s)
    \/ \E m \in DOMAIN MappingRows : \E cols \in MappingEdits : EditAndInvalidate(m, cols)
    \/ \E t \in {1, CACHE_TTL_SECONDS} : Tick(t)

SpecReload == InitCache /\ [][NextReload]_vars

\* ---------------------------------------------------------------- Lifecycle
\* two purchases added by the first page; the second page modifies and removes
\* the second one
FeedLife ==
    << Page(<<Entry(1, "acc1", -430, "STARBUCKS", FALSE), Entry(2, "acc1", -1250, "WHOLE FOODS", FALSE)>>,
            <<>>, <<>>),
       Page(<<>>, <<Entry(2, "acc1", -1300, "WHOLE FOODS", FALSE)>>, <<2>>) >>

\* a user with automatic donation on, a linked bank item whose account is
\* enabled for ACH debits, and nothing ingested yet
InitLifeWith(feed) ==
    /\ db = [batch |-> <<>>, donation |-> <<>>, txn |-> <<>>,
             user |-> [u \in {"u1"} |-> [UserRow(TRUE) EXCEPT !.donationMultiplier = 200]],
             event |-> <<>>,
             item |-> [i \in {"i1"} |-> ItemRow("u1", "plaid-i1")],
             account |-> (1 :> [plaidItemId |-> "i1", plaidAccountId |-> "acc1", userId |-> "u1",
                                achEnabled |-> TRUE, stripePaymentMethodId |-> "pm_1"]),
             charity |-> ("c1" :> [ein |-> "ein1"])]
    /\ plaid = [i \in {"i1"} |-> feed]
    /\ tx = [s \in Sessions |-> EmptyTx]
    /\ pc = [s \in Sessions |-> "idle"]
    /\ loc = [s \in Sessions |-> NoLoc]
    /\ ret = [s \in Sessions |-> NoRet]
    /\ week = 1
    /\ stripe = <<>>
    /\ change = [d \in DonationIds |-> 0]
    /\ handled = <<>>
    /\ partner = NoPartner
    /\ cache = NoCache
    /\ now = 0

\* ingestion with matching, aggregation, the charge, settlement notifications,
\* distribution and completion confirmations, one unit of work after the other
InitLife == InitLifeWith(FeedLife)

\* the provider removes transaction 1 in a later sync, twice over, and edits
\* transaction 2
FeedLater ==
    << LastForNow(Page(<<Entry(1, "acc1", -430, "STARBUCKS", FALSE),
                         Entry(2, "acc1", -1250, "WHOLE FOODS", FALSE)>>, <<>>, <<>>)),
       Page(<<>>, <<Entry(2, "acc1", -1300, "WHOLE FOODS", FALSE)>>, <<1, 1>>) >>

InitRemoval == InitLifeWith(FeedLater)

NextLife ==
    \/ NextFulfil
    \/ \E s \in Notified :
        \/ JobSync(s, "i1")
        \/ SyncSteps(s)
        \/ CwbSelectPending(s)
        \/ CwbSelectBatch(s)
        \/ CwbFlush(s)
        \/ CwbAttach(s)
        \/ CwbCommit(s)

SpecLife == InitLife /\ [][NextLife]_vars

SpecRemoval == InitRemoval /\ [][NextLife]_vars

\* ------------------------------------------------------------------ claims
\* the donations attached to batch b in the committed store
AttachedTo(b) == {d \in DOMAIN db.donation : db.donation[d].batchId = b}

\* C1: the store never holds two DonationBatch rows with the same (userId, weekOf),
\* whatever the interleaving of create_weekly_batches runs
C1_OneBatchPerUserWeek ==
    \A b1 \in DOMAIN db.batch, b2 \in DOMAIN db.batch :
        (db.batch[b1].userId = db.batch[b2].userId /\ db.batch[b1].weekOf = db.batch[b2].weekOf)
            => b1 = b2

\* a run about to INSERT a batch for a (user, week) that a concurrent run has
\* meanwhile committed, having attached a donation this run also holds as pending
C1_Witness ==
    \E s \in Sessions :
        /\ pc[s] = "cwb_flush"
        /\ loc[s].batch.isNew
        /\ \E b \in DOMAIN db.batch :
            /\ db.batch[b].userId = loc[s].batch.userId
            /\ db.batch[b].weekOf = loc[s].week_of
            /\ \E d \in DOMAIN loc[s].pending : d \in AttachedTo(b)

\* C2: once every create_weekly_batches run has finished, each batch's totalAmount
\* is the sum of the amounts of the donations attached to it
C2_TotalIsSumOfAttached ==
    AllIdle => \A b \in DOMAIN db.batch :
        db.batch[b].totalAmount =
            SumOver(AttachedTo(b), [d \in DOMAIN db.donation |-> db.donation[d].amount])

\* C3: the payment processor is asked to debit the user at most once per
\* DonationBatch, over any sequence or interleaving of process_auto_donation_batch
C3_AtMostOneDebitPerBatch ==
    \A b \in DOMAIN db.batch : Cardinality(DebitsOf(b)) <= 1

CalcReturned == {s \in Sessions : loc[s].job = "calculate_donation_amount" /\ ret[s].kind = "returned"}

\* ceil(a) - a if that is non-zero and 1.00 otherwise, for a >= 0 in cents
CeilBase(a) == IF a % 100 = 0 THEN 100 ELSE ((a + 99) \div 100) * 100 - a

\* the three worked examples: (4.30, 1.0) -> 0.70, (5.00, 1.0) -> 1.00, (2.10, 2.0) -> 1.80
CalcExamples(a, m, r) ==
    /\ (a = 430 /\ m = 100) => r = 70
    /\ (a = 500 /\ m = 100) => r = 100
    /\ (a = 210 /\ m = 200) => r = 180

\* C7 (as the code has it): calculate_donation_amount(a, m) is base * m rounded to
\* 2 decimals to the nearest cent, a tie going to the even cent (round-half-even),
\* where base = ceil(a) - a if that is non-zero and 1.00 otherwise; the three
\* worked examples hold
C7_RoundHalfEven ==
    \A s \in CalcReturned :
        LET a == loc[s].transaction_amount
            m == loc[s].multiplier
            r == ret[s].value
            d == 100 * r - CeilBase(a) * m
        IN /\ d \in -50..50
           /\ (d = 50 \/ d = -50) => r % 2 = 0
           /\ CalcExamples(a, m, r)

\* C7 as stated: the product is rounded to 2 decimals with round-half-up
C7_RoundHalfUp ==
    \A s \in CalcReturned :
        LET a == loc[s].transaction_amount
            m == loc[s].multiplier
            r == ret[s].value
            d == 100 * r - CeilBase(a) * m
        IN /\ d \in -49..50
           /\ CalcExamples(a, m, r)

\* a call has returned on a tie: 4.90 at multiplier 1.25 gives 0.10 * 1.25 = 0.1250
C7_Witness ==
    \E s \in CalcReturned :
        /\ loc[s].transaction_amount = 490
        /\ loc[s].multiplier = 125
        /\ ret[s].value = 12

\* C5: at most one handle_plaid_webhook invocation for a WebhookEvent runs the
\* event's handler to success and moves the event to COMPLETED
C5_AtMostOneSuccessfulHandle ==
    \A e \in DOMAIN handled : handled[e] <= 1

\* C6: a user with a configured monthly cap (0.00 included) never has a
\* currentMonthTotal above the cap
C6_TotalWithinCap ==
    \A u \in DOMAIN db.user :
        db.user[u].monthlyLimit # NoLimit
            => db.user[u].currentMonthTotal <= db.user[u].monthlyLimit[1]

\* the session's next step applies an added entry whose external id it already sees
ReappliesAdded(s) ==
    /\ pc[s] = "sync_page"
    /\ loc[s].todo # <<>>
    /\ Head(loc[s].todo).kind = "added"
    /\ \E t \in DOMAIN Visible(s).txn :
            Visible(s).txn[t].plaidTransactionId = Head(loc[s].todo).txn.transaction_id

\* C8: applying a page of added entries again creates no duplicate: a session
\* never sees two Transactions with one external id, and applying an entry whose
\* external id is already there inserts nothing, counts nothing and does not raise
C8_ReapplyingAddedInsertsNothing ==
    /\ [](\A s \in Sessions : \A t1, t2 \in DOMAIN Visible(s).txn :
            Visible(s).txn[t1].plaidTransactionId = Visible(s).txn[t2].plaidTransactionId
                => t1 = t2)
    /\ [][\A s \in Sessions : ReappliesAdded(s) =>
            /\ tx'[s] = tx[s]
            /\ pc'[s] = "sync_page"
            /\ loc'[s].stats = loc[s].stats]_vars

\* the page of added entries of FeedRepeat has been applied a second time in one
\* sync: both entries were passed over, two rows and two counted additions remain
C8_Witness ==
    \E s \in Sessions :
        /\ plaid["i1"] = FeedRepeat
        /\ pc[s] = "sync_page"
        /\ loc[s].item_id = "i1"
        /\ loc[s].page = 2
        /\ loc[s].todo = <<>>
        /\ loc[s].stats.added = 2
        /\ Cardinality(DOMAIN Visible(s).txn) = 2

\* the sync calls known to have raised: the item and the page each was at
SyncFailures(s) ==
    (IF ret[s].kind = "raised" /\ "page" \in DOMAIN ret[s]
     THEN {[item |-> ret[s].item, page |-> ret[s].page]} ELSE {})
    \cup (IF loc[s].job = "daily_transaction_sync"
          THEN {[item |-> f.item, page |-> f.page] : f \in loc[s].errors} ELSE {})
    \cup (IF ret[s].kind = "returned" /\ "errors" \in DOMAIN ret[s].value
          THEN {[item |-> f.item, page |-> f.page] : f \in ret[s].value.errors} ELSE {})

\* C9: the stored cursor of an item moves only at the commit that ends a sync,
\* to the page that sync has just applied in full; and after a sync that raised
\* at page k the stored cursor is still before page k
C9_CursorOnlyOverAppliedPages ==
    /\ [](\A s \in Sessions : \A f \in SyncFailures(s) :
            f.item \in DOMAIN db.item => db.item[f.item].cursor < f.page)
    /\ [][\A i \in DOMAIN db.item :
            db'.item[i].cursor # db.item[i].cursor =>
                \E s \in Sessions :
                    /\ pc[s] = "sync_commit"
                    /\ loc[s].item_id = i
                    /\ loc[s].todo = <<>>
                    /\ db'.item[i].cursor = loc[s].page]_vars

\* a sync of item i1 applied page 1, raised on the nameless entry of page 2, and
\* the stored cursor is still the initial one
C9_Witness ==
    \E s \in Sessions :
        /\ ret[s].kind = "raised"
        /\ ret[s].error = "AttributeError"
        /\ ret[s].item = "i1"
        /\ ret[s].page = 2
        /\ db.item["i1"].cursor = 0

\* the first page of the item's feed that adds the external id
FirstPageAdding(item, ext) ==
    LET ks == {k \in 1..Len(plaid[item]) :
                \E j \in 1..Len(plaid[item][k].added) : plaid[item][k].added[j].transaction_id = ext}
    IN CHOOSE k \in ks : \A m \in ks : k <= m

IsCompleted(d) == d \in DOMAIN db.donation /\ db.donation[d].status = "COMPLETED"

\* the row's own record of an earlier completion: complete_donation stamps
\* completedAt together with the status, and nothing clears it afterwards
CompletedBefore(d) == db.donation[d].completedAt # None

Charged(b) == db.batch[b].stripePaymentIntentId # NoId

\* the processor has settled the charge the batch row carries
ChargeSettled(b) == stripe[db.batch[b].stripePaymentIntentId].settled = "succeeded"

\* C12: a Donation of a batch charged by the automatic flow is COMPLETED only
\* while the processor has confirmed settlement of the batch's charge; never
\* while the charge is unsettled or has failed
C12_CompletedOnlyAfterSettlement ==
    \A d \in DOMAIN db.donation :
        LET b == db.donation[d].batchId
        IN (b \in DOMAIN db.batch /\ Charged(b) /\ IsCompleted(d)) => ChargeSettled(b)

\* C13: handle_plaid_webhook on an event that is not PENDING (PROCESSING,
\* COMPLETED or FAILED) is a no-op: it returns a skipped result naming the
\* status, runs no handler, and leaves the store (the event's status,
\* retryCount, error and processedAt, and every bank item) unchanged
C13_NonPendingHandleIsNoOp ==
    [][\A s \in Sessions, e \in DOMAIN db.event :
          (Visible(s).event[e].status # "PENDING" /\ WhSelect(s, e))
             => /\ ret'[s] = Skipped(<<"Event status is", Visible(s).event[e].status>>)
                /\ pc'[s] = "idle"
                /\ db' = db /\ tx' = tx
                /\ handled' = handled /\ plaid' = plaid]_vars

\* a delivery was skipped on an event another unit of work had left PROCESSING
C13_Witness ==
    \E s \in Sessions :
        /\ ret[s] = Skipped(<<"Event status is", "PROCESSING">>)
        /\ db.event["ev1"].status = "PROCESSING"
        /\ pc[s] = "idle"

\* the unit of work of session s leaves the except branch of handle_plaid_webhook
LeavesExcept(s) == pc[s] = "wh_except" /\ pc'[s] # "wh_except"

\* C14: when the dispatched handler raises (a missing bank item included), the
\* event ends FAILED with the error text stored and retryCount one above the
\* stored count, the record is committed, and the exception reaches the caller
\* (the job's caller, or the loop of retry_failed_webhooks that called the handler)
C14_HandlerFailureRecordedAndRaised ==
    [][\A s \in Sessions :
          LeavesExcept(s) =>
             LET e == loc[s].event_id
             IN /\ loc[s].error # None
                /\ db'.event[e].status = "FAILED"
                /\ db'.event[e].error = loc[s].error
                /\ db'.event[e].retryCount = db.event[e].retryCount + 1
                /\ tx'[s] = EmptyTx
                /\ IF loc[s].caller = "retry_failed_webhooks"
                   THEN loc'[s].results[Len(loc'[s].results)] =
                            [eventId |-> e, success |-> FALSE, error |-> loc[s].error]
                   ELSE ret'[s].kind = "raised" /\ ret'[s].error = loc[s].error]_vars

\* the handler of event ev1 raised on a bank item that does not exist, and a
\* retry raised on it again
C14_Witness ==
    /\ db.event["ev1"].payload.item_id = "plaid-gone"
    /\ db.event["ev1"].status = "FAILED"
    /\ db.event["ev1"].error = "ValueError"
    /\ db.event["ev1"].retryCount = 2
    /\ pc["s1"] = "rt_loop"
    /\ loc["s1"].results # <<>>

\* the latest version of event e: the row as the session that has written it
\* sees it, else the committed row
CurrentEvent(e) ==
    IF \E s \in Sessions : e \in DOMAIN tx[s].event
    THEN Visible(CHOOSE s \in Sessions : e \in DOMAIN tx[s].event).event[e]
    ELSE db.event[e]

EventEdges == {<<"PENDING", "PROCESSING">>, <<"PROCESSING", "COMPLETED">>,
               <<"PROCESSING", "FAILED">>, <<"FAILED", "PENDING">>}

\* C15: over handle_plaid_webhook and retry_failed_webhooks runs, one after the
\* other, a WebhookEvent's status changes only along PENDING -> PROCESSING,
\* PROCESSING -> COMPLETED, PROCESSING -> FAILED and FAILED -> PENDING (COMPLETED
\* is terminal), and processedAt is set exactly when the event becomes COMPLETED
C15_StatusFollowsStateMachine ==
    [][\A e \in DOMAIN db.event :
          LET old == CurrentEvent(e)
              new == CurrentEvent(e)'
          IN /\ old.status # new.status => <<old.status, new.status>> \in EventEdges
             /\ old.processedAt # new.processedAt
                   => old.status # "COMPLETED" /\ new.status = "COMPLETED"
             /\ (old.status # "COMPLETED" /\ new.status = "COMPLETED")
                   => new.processedAt # None
             /\ old.status # "COMPLETED" => old.processedAt = None]_vars

\* the event that had failed was reset by a retry, handled again and COMPLETED
C15_Witness ==
    /\ db.event["ev2"].status = "COMPLETED"
    /\ db.event["ev2"].processedAt # None
    /\ db.event["ev2"].retryCount >= 1
    /\ handled["ev2"] = 1

\* session s is inside a run of retry_failed_webhooks (the handler it calls included)
InRetry(s) ==
    /\ pc[s] # "idle"
    /\ "caller" \in DOMAIN loc[s]
    /\ loc[s].job = "retry_failed_webhooks" \/ loc[s].caller = "retry_failed_webhooks"

\* C16: retry_failed_webhooks(max_retries) never resets or re-handles a FAILED
\* event whose retryCount is at or above max_retries: the event is not among the
\* selected ones and its status, retryCount and error stay as they are while the
\* retry runs, whatever its age
C16_RetryLeavesExhaustedEvents ==
    [][\A s \in Sessions :
          InRetry(s) =>
             /\ \A i \in 1..Len(loc[s].failed_events) :
                   loc[s].failed_events[i].row.retryCount < loc[s].max_retries
             /\ \A e \in DOMAIN db.event :
                   (CurrentEvent(e).status = "FAILED"
                        /\ CurrentEvent(e).retryCount >= loc[s].max_retries)
                      => /\ CurrentEvent(e)'.status = "FAILED"
                         /\ CurrentEvent(e)'.retryCount = CurrentEvent(e).retryCount
                         /\ CurrentEvent(e)'.error = CurrentEvent(e).error]_vars

\* a retry with ceiling 2 re-handled the newer event while the oldest one, FAILED
\* twice already, stayed as it was
C16_Witness ==
    /\ pc["s1"] = "rt_loop"
    /\ loc["s1"].max_retries = 2
    /\ loc["s1"].results # <<>>
    /\ loc["s1"].results[1].eventId = "ev1"
    /\ db.event["ev2"].status = "FAILED"
    /\ db.event["ev2"].retryCount = 2
    /\ handled["ev2"] = 0

\* the unit of work of session s commits distribute_donations_to_charities
DistributeCommits(s) ==
    /\ pc[s] = "dist_loop" /\ pc'[s] = "idle"
    /\ loc[s].job = "distribute_donations_to_charities"

FailureCommits(s) == pc[s] = "hapf_commit" /\ pc'[s] = "idle"

HasAchAccount(row) ==
    \E a \in DOMAIN db.account :
        /\ db.account[a].userId = row.userId
        /\ db.account[a].achEnabled
        /\ db.account[a].stripePaymentMethodId # None

\* the reason process_auto_donation_batch gives for not charging the batch row
\* it read, <<>> when it has none
SkipReason(row) ==
    IF row.status \notin {"PENDING", "READY"} THEN <<"Batch status is", row.status>>
    ELSE IF ~db.user[row.userId].autoDonateEnabled THEN <<"Auto-donate not enabled">>
    ELSE IF ~HasAchAccount(row) THEN <<"No ACH account configured">>
    ELSE IF db.user[row.userId].stripeCustomerId = None THEN <<"No Stripe customer">>
    ELSE <<>>

SkipsSync(s) ==
    /\ pc[s] = "sync_start" /\ pc'[s] # "sync_start"
    /\ loc[s].item_id \in DOMAIN Visible(s).item
    /\ Visible(s).item[loc[s].item_id].status # "ACTIVE"

\* C21: a sync of a bank item that is not ACTIVE is a no-op reported as skipped:
\* the provider is not asked for a page, nothing is written or flushed (no
\* Transaction, no Donation, the cursor of the item as it was), and the caller
\* gets the skipped result
C21_InactiveItemSyncIsSkipped ==
    [][\A s \in Sessions :
          SkipsSync(s) =>
              /\ db' = db /\ tx' = tx /\ plaid' = plaid
              /\ pc'[s] \notin {"sync_fetch", "sync_page", "sync_commit"}
              /\ loc[s].job = "sync_plaid_item_transactions" =>
                    /\ pc'[s] = "idle"
                    /\ ret'[s] = Skipped(<<"Item status is",
                                           Visible(s).item[loc[s].item_id].status>>)
              /\ loc[s].job = "handle_plaid_webhook" => pc'[s] = "wh_complete"]_vars

\* a requested sync of item i1 was skipped because the item is in ERROR, with
\* transactions of an earlier sync in the store
C21_Witness ==
    /\ ret["s1"].kind = "skipped"
    /\ ret["s1"].reason = <<"Item status is", "ERROR">>
    /\ db.item["i1"].status = "ERROR"
    /\ db.item["i1"].cursor > 0
    /\ db.txn # <<>>

\* the Transaction ids session s inserts in this step: process_transaction runs
\* on each added row right after its INSERT
InsertedBy(s) == {t \in DOMAIN tx'[s].txn : t \notin DOMAIN tx[s].txn /\ t \notin DOMAIN db.txn}

\* the Donations session s has pending for transaction t after the step
DonationsFor(s, t) ==
    {d \in DOMAIN tx'[s].donation :
        tx'[s].donation[d] # Deleted /\ tx'[s].donation[d].transactionId = t}

\* C22: process on a transaction with no mapping, or with a mapping whose cause
\* the user has not opted into, or whose computed amount would push
\* currentMonthTotal past the configured cap, sets the transaction SKIPPED,
\* creates no Donation and leaves currentMonthTotal as it was; in the last two
\* cases the transaction records the mapping that would have applied
C22_UnmatchedIsSkipped ==
    [][\A s \in Sessions : \A t \in InsertedBy(s) :
          LET row == tx'[s].txn[t]
              user == Visible(s).user[row.userId]
              hits == {m \in DOMAIN Mappings : row.merchantName \in Mappings[m].merchants}
              opted == \E m \in hits : <<row.userId, Mappings[m].causeId>> \in UserCauses
              amount == calculate_donation_amount(row.amount, user.donationMultiplier)
              capped == /\ user.monthlyLimit # NoLimit
                        /\ user.currentMonthTotal + amount > user.monthlyLimit[1]
              skipped == /\ row.status = "SKIPPED"
                         /\ DonationsFor(s, t) = {}
                         /\ tx'[s].user = tx[s].user
          IN /\ hits = {} => skipped
             /\ (hits # {} /\ ~opted) => (skipped /\ row.matchedMappingId \in hits)
             /\ (hits # {} /\ opted /\ capped) => (skipped /\ row.matchedMappingId \in hits)]_vars

\* transactions persisted as MATCHED by this step
NewlyMatched ==
    {t \in DOMAIN db'.txn :
        /\ db'.txn[t].status = "MATCHED"
        /\ t \notin DOMAIN db.txn \/ db.txn[t].status # "MATCHED"}

\* Donations persisted by this step
NewDonations == DOMAIN db'.donation \ DOMAIN db.donation

\* C23: a successful match is all-or-nothing in the persisted state: a commit
\* that persists a transaction as MATCHED persists with it exactly one PENDING
\* Donation linked to it, of the computed amount, and every Donation it persists
\* belongs to such a transaction; and the commit increases the user's
\* currentMonthTotal by exactly the amounts of the Donations it persists
C23_MatchIsAllOrNothing ==
    [][/\ \A t \in NewlyMatched :
            LET ds == {d \in NewDonations : db'.donation[d].transactionId = t}
                u == db'.txn[t].userId
            IN /\ Cardinality(ds) = 1
               /\ \A d \in ds :
                     /\ db'.donation[d].status = "PENDING"
                     /\ db'.donation[d].amount =
                           calculate_donation_amount(db'.txn[t].amount,
                                                     db'.user[u].donationMultiplier)
       /\ \A d \in NewDonations : db'.donation[d].transactionId \in NewlyMatched
       /\ \A u \in DOMAIN db.user :
            LET ds == {d \in NewDonations : db'.donation[d].userId = u}
            IN ds # {} =>
                  db'.user[u].currentMonthTotal - db.user[u].currentMonthTotal
                      = SumOver(ds, [d \in DOMAIN db'.donation |-> db'.donation[d].amount])]_vars

\* the forward moves of a Transaction's status: PENDING -> {MATCHED, SKIPPED},
\* MATCHED -> BATCHED -> DONATED, and what follows from them
TxnForward ==
    {<<"PENDING", "MATCHED">>, <<"PENDING", "SKIPPED">>, <<"PENDING", "BATCHED">>,
     <<"PENDING", "DONATED">>, <<"MATCHED", "BATCHED">>, <<"MATCHED", "DONATED">>,
     <<"BATCHED", "DONATED">>}

\* C24: until it is deleted, a persisted Transaction's status only moves forward
\* along PENDING -> {MATCHED, SKIPPED}, MATCHED -> BATCHED -> DONATED over
\* ingestion, matching, aggregation, charge, settlement, distribution and
\* completion; it never returns to an earlier status
C24_TxnStatusMonotonic ==
    [][\A t \in DOMAIN db.txn \cap DOMAIN db'.txn :
          db'.txn[t].plaidTransactionId = db.txn[t].plaidTransactionId =>
              \/ db'.txn[t].status = db.txn[t].status
              \/ <<db.txn[t].status, db'.txn[t].status>> \in TxnForward]_vars

\* the transaction of a batched donation went MATCHED -> BATCHED -> DONATED while
\* the other one, SKIPPED, was deleted by a later page
C24_Witness ==
    /\ 1 \in DOMAIN db.txn /\ db.txn[1].status = "DONATED"
    /\ 1 \in DOMAIN db.donation /\ db.donation[1].batchId # NoId
    /\ 2 \notin DOMAIN db.txn
    /\ db.item["i1"].cursor = 2

\* session s returns from process_donation_batch with its result
ReturnsUrls(s) == pc[s] = "pdb_commit" /\ pc'[s] = "idle"

\* C25: process_donation_batch on a PENDING or READY batch moves it to
\* PROCESSING, then to READY, and returns one donation URL per distinct charity
\* of the batch, for the sum of that charity's donations; on a batch in any other
\* status it changes nothing and reports skipped with the status as the reason
C25_LegacyBatchProcessing ==
    [][\A s \in Sessions :
        /\ \A b \in DOMAIN Visible(s).batch :
              PdbSelect(s, b) =>
                  IF Visible(s).batch[b].status \in {"PENDING", "READY"}
                  THEN pc'[s] = "pdb_flush" /\ db' = db /\ tx' = tx
                  ELSE /\ db' = db /\ tx' = tx /\ pc'[s] = "idle"
                       /\ ret'[s] = Skipped(<<"Batch status is", Visible(s).batch[b].status>>)
        /\ (pc[s] = "pdb_flush" /\ pc'[s] # "pdb_flush") =>
              /\ pc'[s] = "pdb_commit"
              /\ tx'[s].batch[loc[s].batch_id].status = "PROCESSING"
              /\ db' = db
        /\ ReturnsUrls(s) =>
              LET b == loc[s].batch_id
                  att == {d \in DOMAIN db.donation : db.donation[d].batchId = b}
                  charities == {db.donation[d].charityId : d \in att}
                  urls == ret'[s].value.donationUrls
              IN /\ db' = [db EXCEPT !.batch[b].status = "READY"]
                 /\ {u.charitySlug : u \in urls} = charities
                 /\ Cardinality(urls) = Cardinality(charities)
                 /\ \A u \in urls :
                       u.amount = SumOver({d \in att : db.donation[d].charityId = u.charitySlug},
                                          [d \in DOMAIN db.donation |-> db.donation[d].amount])]_vars

\* a run returned a single URL for the two donations of one charity, 1.60 in
\* all, and left the batch READY
C25_Witness ==
    /\ ret["s1"].kind = "returned"
    /\ "donationUrls" \in DOMAIN ret["s1"].value
    /\ Cardinality(ret["s1"].value.donationUrls) = 1
    /\ \A u \in ret["s1"].value.donationUrls : u.amount = 160
    /\ db.batch[1].status = "READY"
    /\ Cardinality({db.donation[d].charityId : d \in DOMAIN db.donation}) = 1

\* session s commits a run of create_weekly_batches
CommitsWeeklyBatches(s) == pc[s] = "cwb_loop" /\ pc'[s] = "idle"

\* the batches of user u, as a table
BatchesOf(t, u) == [b \in {x \in DOMAIN t : t[x].userId = u} |-> t[b]]

\* C26: a run of createWeeklyBatches leaves untouched every group of a user with
\* automatic donation disabled or whose pending unbatched donations sum to less
\* than 1.00 (no batch created or extended, donations and transactions as they
\* were); every donation of every other group gets a batch id and its
\* transaction becomes BATCHED
C26_SkippedGroupsUntouched ==
    [][\A s \in Sessions : CommitsWeeklyBatches(s) =>
          \A u \in Users :
              LET grp == GroupOf(loc[s].pending, u)
                  total == SumOver(grp, [d \in DOMAIN loc[s].pending |-> loc[s].pending[d].amount])
              IN grp # {} =>
                    IF ~db.user[u].autoDonateEnabled \/ total < 100
                    THEN /\ \A d \in grp :
                              /\ db'.donation[d] = db.donation[d]
                              /\ db'.txn[db.donation[d].transactionId]
                                    = db.txn[db.donation[d].transactionId]
                         /\ BatchesOf(db'.batch, u) = BatchesOf(db.batch, u)
                    ELSE \A d \in grp :
                              /\ db'.donation[d].batchId # NoId
                              /\ db'.txn[db.donation[d].transactionId].status = "BATCHED"]_vars

\* row i of the item table d as seen through the pending writes w
ItemSeen(d, w, i) == IF i \in DOMAIN w THEN Merge(d[i], w[i]) ELSE d[i]

\* session s leaves the dispatch of an ITEM notification for a known item
DispatchesHealth(s) ==
    /\ pc[s] = "wh_dispatch" /\ pc'[s] # "wh_dispatch"
    /\ loc[s].event.payload.webhook_type = "ITEM"
    /\ \E i \in DOMAIN db.item : db.item[i].itemId = loc[s].event.payload.item_id

\* C27: a bank-item health notification, from any prior status, sets the item
\* to ERROR and stores the provider error code (ERROR), sets it to ACTIVE,
\* clears the error code and goes straight on to a sync of that item
\* (LOGIN_REPAIRED), sets it to LOGIN_REQUIRED (PENDING_EXPIRATION), sets it to
\* DISCONNECTED (USER_PERMISSION_REVOKED), or changes nothing
\* (WEBHOOK_UPDATE_ACKNOWLEDGED); completing the event commits exactly that
C27_HealthNotificationEffects ==
    [][\A s \in Sessions :
        /\ DispatchesHealth(s) =>
              LET p == loc[s].event.payload
                  i == CHOOSE x \in DOMAIN db.item : db.item[x].itemId = p.item_id
                  before == ItemSeen(db.item, tx[s].item, i)
                  after == ItemSeen(db.item, tx'[s].item, i)
              IN /\ db' = db
                 /\ \A j \in DOMAIN db.item \ {i} :
                        ItemSeen(db.item, tx'[s].item, j) = ItemSeen(db.item, tx[s].item, j)
                 /\ CASE p.webhook_code = "ERROR" ->
                            /\ after = [before EXCEPT
                                   !.status = "ERROR",
                                   !.errorCode = IF "error" \in DOMAIN p
                                                 THEN p.error.error_code ELSE None]
                            /\ pc'[s] = "wh_complete"
                      [] p.webhook_code = "LOGIN_REPAIRED" ->
                            /\ after = [before EXCEPT !.status = "ACTIVE", !.errorCode = None]
                            /\ pc'[s] = "sync_start"
                            /\ loc'[s].item_id = i
                      [] p.webhook_code = "PENDING_EXPIRATION" ->
                            /\ after = [before EXCEPT !.status = "LOGIN_REQUIRED"]
                            /\ pc'[s] = "wh_complete"
                      [] p.webhook_code = "USER_PERMISSION_REVOKED" ->
                            /\ after = [before EXCEPT !.status = "DISCONNECTED"]
                            /\ pc'[s] = "wh_complete"
                      [] p.webhook_code = "WEBHOOK_UPDATE_ACKNOWLEDGED" ->
                            /\ tx' = tx
                            /\ pc'[s] = "wh_complete"
                      [] OTHER -> tx' = tx
        /\ (pc[s] = "wh_complete" /\ pc'[s] # "wh_complete") =>
              \A i \in DOMAIN db.item : db'.item[i] = ItemSeen(db.item, tx[s].item, i)]_vars

\* the PENDING_EXPIRATION notification was handled to the end and item i1 is
\* LOGIN_REQUIRED in the database
C27_Witness ==
    /\ db.event["ev1"].payload.webhook_code = "PENDING_EXPIRATION"
    /\ db.event["ev1"].status = "COMPLETED"
    /\ db.item["i1"].status = "LOGIN_REQUIRED"

\* session s leaves the skip tests of distribute_batch_grants on a batch it
\* sees as grant-completed or grant-processing
DistributesSettled(s) ==
    /\ pc[s] = "dbg_select" /\ pc'[s] # "dbg_select"
    /\ loc[s].batch_id \in DOMAIN db.batch
    /\ ItemSeen(db.batch, tx[s].batch, loc[s].batch_id).grantStatus \in {"completed", "processing"}

\* no batch is sent a request after a request for it succeeded
NoSecondRequest(requests) ==
    \A i, j \in 1..Len(requests) :
        (i < j /\ requests[i].batch_id = requests[j].batch_id) => ~requests[i].ok

EndsDistribution(s) ==
    /\ pc[s] \in {"dbg_select", "dbg_none", "dbg_commit", "dbg_except"}
    /\ pc'[s] \in {"idle", "rfd_loop"}
    /\ loc[s].batch_id \in DOMAIN db.batch
    /\ pc[s] = "dbg_select" =>
          ItemSeen(db.batch, tx[s].batch, loc[s].batch_id).grantStatus
              \notin {"completed", "processing"}

\* what the call that ends in this step returns or raises to its caller
OutcomeOf(s) ==
    IF pc'[s] = "idle" THEN ret'[s]
    ELSE loc'[s].results[Len(loc'[s].results)].outcome

\* the three ends of a distribution of batch b by session s
EndsWithoutGrants(s, b) ==
    /\ GrantsByCharity(db, {d \in DOMAIN db.donation : db.donation[d].batchId = b}) = {}
    /\ pc[s] = "dbg_none"
    /\ partner' = partner
    /\ db'.batch[b].grantStatus = "completed"
    /\ db'.donation = db.donation

EndsRequested(s, b) ==
    /\ partner' = partner /\ partner.requests # <<>>
    /\ LET n == Len(partner.requests)
       IN /\ partner.requests[n].batch_id = b /\ partner.requests[n].ok
          /\ db'.batch[b].everyOrgDisbursementId = n
    /\ db'.batch[b].grantStatus = "processing"
    /\ \A d \in DOMAIN db.donation :
          db.donation[d].batchId = b => db'.donation[d].grantStatus = "pending"
    /\ OutcomeOf(s).kind = "returned"

EndsFailed(s, b) ==
    /\ partner' = partner /\ partner.requests # <<>>
    /\ LET n == Len(partner.requests)
       IN partner.requests[n].batch_id = b /\ ~partner.requests[n].ok
    /\ db'.batch[b].grantStatus = "failed"
    /\ db'.batch[b].grantError # None
    /\ db'.donation = db.donation
    /\ OutcomeOf(s).kind = "raised"

\* a request is only ever sent for a batch with a resolvable charity
RequestsHaveGrants ==
    partner' # partner =>
        /\ Len(partner'.requests) = Len(partner.requests) + 1
        /\ partner'.requests[Len(partner'.requests)].disbursements # {}

EndsRetry(s) == pc[s] = "wr_call" /\ pc'[s] = "idle"

\* C30: with_retry(func, max_attempts), max_attempts >= 1, invokes func at most
\* max_attempts times and ends either by returning the value of the first
\* invocation that succeeds, or, when all max_attempts invocations raised, by
\* raising the exception of the last one
C30_RetryReturnsOrRaisesLast ==
    [][\A s \in Sessions :
        /\ pc'[s] \in {"wr_call", "wr_sleep"} => loc'[s].invoked < loc'[s].max_attempts
        /\ EndsRetry(s) =>
              LET k == loc[s].invoked + 1
              IN /\ k <= loc[s].max_attempts
                 /\ \/ ret'[s] = Returned(<<"value", k>>)
                    \/ /\ k = loc[s].max_attempts
                       /\ ret'[s] = Raised(<<"error", k>>)]_vars

\* C31: the delay with_retry sleeps between two attempts never exceeds
\* max_delay, whatever the attempt and the jitter draw
C31_DelayWithinMax ==
    \A s \in Sessions : pc[s] = "wr_sleep" => loc[s].delay <= max_delay

\* session s applies the removed entry at the head of its page
AppliesRemoval(s) ==
    /\ pc[s] = "sync_page" /\ loc[s].todo # <<>>
    /\ Head(loc[s].todo).kind = "removed"
    /\ loc'[s].todo = Tail(loc[s].todo)

\* COMPLETED and REFUNDED are final; FAILED is taken as non-final, the reading
\* under which a removal may delete most
FinalDonationStatuses == {"COMPLETED", "REFUNDED"}

\* row i of table t is gone for session s after the step
GoneFor(s, t, i) == i \in DOMAIN tx'[s][t] /\ tx'[s][t][i] = Deleted

\* C32: applying a removed entry deletes the Transaction with that external id
\* and its linked Donation when that is in a non-final status, deletes no
\* Donation in a final status, and counts one removal; when no Transaction has
\* the external id (as on a second application) it changes and counts nothing
C32_RemovalDeletesNonFinal ==
    [][\A s \in Sessions : AppliesRemoval(s) =>
          LET id == Head(loc[s].todo).txn.transaction_id
              v == Visible(s)
              found == {t \in DOMAIN v.txn : v.txn[t].plaidTransactionId = id}
          IN IF found = {}
             THEN tx' = tx /\ loc'[s].stats = loc[s].stats
             ELSE /\ \A t \in found : GoneFor(s, "txn", t)
                  /\ loc'[s].stats.removed = loc[s].stats.removed + 1
                  /\ \A d \in DOMAIN v.donation :
                        v.donation[d].transactionId \in found =>
                            (GoneFor(s, "donation", d)
                                <=> v.donation[d].status \notin FinalDonationStatuses)]_vars

\* the place of event e in createdAt order
AgeRank(e) == CHOOSE i \in 1..Len(EventOrder) : EventOrder[i] = e

\* session s is inside a run of retry_failed_webhooks
InRetryRun(s) == pc[s] \in {"rt_loop", "rt_handle", "wh_flush", "wh_dispatch", "wh_complete", "wh_except"}

\* C33: retry_failed_webhooks(max_retries) selects the oldest FAILED plaid
\* events with retryCount < max_retries, at most 50 of them, oldest first; it
\* resets each to PENDING and invokes handle on it; a failure of handle is
\* recorded on the event and in the results, and the remaining selected events
\* are still retried: every selected event gets its own result
C33_RetryIsolatesFailures ==
    [][\A s \in Sessions :
        /\ (pc[s] = "idle" /\ pc'[s] = "rt_loop") =>
              LET l == loc'[s]
                  sel == {e \in DOMAIN db.event :
                             /\ db.event[e].source = "plaid" /\ db.event[e].status = "FAILED"
                             /\ db.event[e].retryCount < l.max_retries}
                  ids == {l.failed_events[i].id : i \in 1..Len(l.failed_events)}
              IN /\ Len(l.failed_events) <= 50
                 /\ Len(l.failed_events) = (IF Cardinality(sel) < 50 THEN Cardinality(sel) ELSE 50)
                 /\ ids \subseteq sel /\ Cardinality(ids) = Len(l.failed_events)
                 /\ \A i, j \in 1..Len(l.failed_events) :
                       i < j => AgeRank(l.failed_events[i].id) < AgeRank(l.failed_events[j].id)
                 /\ \A e \in sel \ ids : \A f \in ids : AgeRank(f) < AgeRank(e)
        /\ (pc[s] = "rt_loop" /\ pc'[s] = "rt_handle") =>
              /\ loc'[s].event_id = Head(loc[s].failed_events).id
              /\ tx'[s].event[loc'[s].event_id].status = "PENDING"
        /\ (pc[s] = "rt_handle" /\ pc'[s] # "rt_handle") =>
              pc'[s] = "wh_flush" /\ loc'[s].event_id = loc[s].event_id
        /\ (pc[s] = "wh_except" /\ loc[s].caller = "retry_failed_webhooks"
                /\ pc'[s] # "wh_except") =>
              LET e == loc[s].event_id
              IN /\ db'.event[e].status = "FAILED"
                 /\ db'.event[e].error = loc[s].error
                 /\ db'.event[e].retryCount = db.event[e].retryCount + 1
                 /\ pc'[s] = "rt_loop"
                 /\ loc'[s].results = Append(loc[s].results,
                        [eventId |-> e, success |-> FALSE, error |-> loc[s].error])
                 /\ loc'[s].failed_events = Tail(loc[s].failed_events)
        /\ (InRetryRun(s) /\ InRetryRun(s)' /\ loc[s].job # "none"
                /\ (loc[s].job = "retry_failed_webhooks" \/ loc[s].caller = "retry_failed_webhooks")) =>
              Len(loc'[s].results) + Len(loc'[s].failed_events)
                  = Len(loc[s].results) + Len(loc[s].failed_events)]_vars

\* a run over the backlog has returned 50 results, the first a failure and the
\* second a success, and has left the event beyond the limit FAILED
C33_Witness ==
    /\ ret["s1"].kind = "returned"
    /\ "totalRetried" \in DOMAIN ret["s1"].value
    /\ ret["s1"].value.totalRetried = 50
    /\ ~ret["s1"].value.results[1].success
    /\ ret["s1"].value.results[2].success
    /\ ret["s1"].value.results[50].eventId = "e52"
    /\ db.event["e53"].status = "FAILED" /\ db.event["e53"].retryCount = 1
    /\ db.event["e01"].status = "FAILED" /\ db.event["e01"].retryCount = 2

\* a step in which session s calls get_business_mappings
Looks(s) == Idle(s) /\ loc'[s] # loc[s] /\ loc'[s].job = "get_business_mappings"

\* the last load was made less than the time-to-live ago and nothing
\* invalidated the cache since
LoadedWithinTtl ==
    /\ cache.mappings_cache # <<>>
    /\ now - (cache.cache_expires_at - CACHE_TTL_SECONDS) < CACHE_TTL_SECONDS

\* C34: a lookup made less than 300 seconds after the last load, with no
\* invalidation in between, returns the cached mappings without reading the
\* store; a lookup at or after 300 seconds, and the first lookup after
\* invalidate_mappings_cache, reads the active mappings from the store, caches
\* them for 300 seconds from the lookup and returns them.
C34_CacheWithinTtl ==
    [][\A s \in Sessions :
        /\ Looks(s) =>
             IF LoadedWithinTtl
             THEN /\ pc'[s] = "idle"
                  /\ ret'[s] = Returned(cache.mappings_cache[1])
                  /\ cache' = cache
             ELSE pc'[s] = "gbm_execute"
        /\ (pc[s] = "gbm_execute" /\ pc'[s] # pc[s]) =>
             loc'[s].mappings = ActiveMappings(db)
        /\ (pc[s] = "gbm_store" /\ pc'[s] # pc[s]) =>
             /\ ret'[s] = Returned(loc[s].mappings)
             /\ cache'.mappings_cache = <<loc[s].mappings>>
             /\ cache'.cache_expires_at = loc[s].now + CACHE_TTL_SECONDS]_vars

\* a lookup 299 seconds after the load was answered from the cache although the
\* store had changed, and the cache was loaded at second 0
C34_Witness ==
    /\ now = 299
    /\ Idle("s1")
    /\ loc["s1"] = [job |-> "get_business_mappings", now |-> 299]
    /\ cache.cache_expires_at = 300
    /\ ret["s1"] = Returned(cache.mappings_cache[1])
    /\ cache.mappings_cache[1] # ActiveMappings(db)

\* a lookup at second 300 read the store again after a load at second 0
C34_WitnessExpired ==
    /\ now = 300
    /\ loc["s1"].job = "get_business_mappings" /\ loc["s1"].now = 300
    /\ pc["s1"] = "gbm_execute"
    /\ cache.cache_expires_at = 300

\* C39: after the mappings were edited and invalidate_mappings_cache returned,
\* a lookup that starts afterwards sees the edited mappings: with every edit
\* followed by an invalidation, a lookup answered from the cache returns the
\* active mappings of the store, also when a reload was suspended on its query
\* at the invalidation.
C39_LookupSeesEdits ==
    [][\A s \in Sessions :
        (Looks(s) /\ pc'[s] = "idle") => ret'[s] = Returned(ActiveMappings(db))]_vars

\* transaction t is committed with status PENDING
StaysPending(t) == t \in DOMAIN db.txn /\ db.txn[t].status = "PENDING"

LeftUnmatched(row) ==
    LET mapping == find_mapping(row.merchantName)
    IN /\ mapping # NoMapping
       /\ user_has_cause(row.userId, Mappings[mapping].causeId)
       /\ \/ row.userId \notin DOMAIN db.user
          \/ get_default_charity(Mappings[mapping].causeId) = None

HasDebit(b) == \E i \in DebitsOf(b) : stripe[i].status \in InitiatedStatuses

\* the amount debited for batch b
DebitedFor(b) ==
    SumOver({i \in DebitsOf(b) : stripe[i].status \in InitiatedStatuses},
            [i \in 1..Len(stripe) |-> stripe[i].amount])

\* the amounts of the disbursement requests accepted for the donations of batch b
DisbursedFor(b) ==
    SumOver(AttachedTo(b), [d \in DOMAIN db.donation |-> change[d] * db.donation[d].amount])

\* C36 (second sentence): once a batch has been charged, no later step changes
\* its totalAmount or attaches a further donation to it.
C36_ChargedBatchFrozen ==
    [][\A b \in DOMAIN db.batch :
        (HasDebit(b) /\ b \in DOMAIN db'.batch) =>
            /\ db'.batch[b].totalAmount = db.batch[b].totalAmount
            /\ {d \in DOMAIN db'.donation : db'.donation[d].batchId = b} \subseteq AttachedTo(b)]_vars

\* C36 (first sentence): the disbursement requests issued for a charged batch
\* never add up to more than the amount debited for it.
C36_DisbursedWithinDebit ==
    \A b \in DOMAIN db.batch : HasDebit(b) => DisbursedFor(b) <= DebitedFor(b)

C38_CompletedBatchHasNoOpenDonation ==
    \A b \in DOMAIN db.batch :
        db.batch[b].status = "COMPLETED" =>
            \A d \in AttachedTo(b) : db.donation[d].status \notin {"PENDING", "PROCESSING"}

\* the amounts of the existing donations of user u, all of them created by the
\* Matching Engine
DonatedBy(u) ==
    SumOver({d \in DOMAIN db.donation : db.donation[d].userId = u},
            [d \in DOMAIN db.donation |-> db.donation[d].amount])

\* C40: with no monthly reset so far, a user's currentMonthTotal equals the sum
\* of the amounts of the user's existing Donations created by the Matching
\* Engine, after any sequence of syncs (adds, modifies, removes).
C40_MonthTotalMatchesDonations ==
    \A u \in DOMAIN db.user : db.user[u].currentMonthTotal = DonatedBy(u)

====
